---- MODULE Spec2Model ----
(***************************************************************************)
(* rv8 user-mode emulator (riscv-test-emulate): instruction length and     *)
(* fetch (riscv-codec.h), the proxy stepper with its direct-mapped decode  *)
(* cache (riscv-test-emulate.cc) and the syscall proxy                     *)
(* (riscv-unknown-abi.h).                                                  *)
(*                                                                         *)
(* Machine words are little-endian byte tuples (index 1 is the least       *)
(* significant byte), so that 64-bit values keep their width: a uint64_t   *)
(* or uintptr_t is a tuple of 8 bytes and all arithmetic wraps at 2^64.    *)
(***************************************************************************)
EXTENDS Integers, Sequences, FiniteSets, TLC

VARIABLES
    mem,          \* guest memory: address -> byte
    fetched,      \* codec harness: result of the last inst_fetch / inst_length
    proc,         \* riscv_processor_base fields: pc, ireg, heap_*, mapped_segments
    inst_cache,   \* riscv_proxy_runner::inst_cache (8191 slots, kept sparse)
    run,          \* control state of start()/step(): phase, i, count, events
    shadow        \* the same runner with a decode cache of one slot

vars == <<mem, fetched, proc, inst_cache, run, shadow>>

(***************************************************************************)
(* Fixed-width words as byte tuples                                        *)
(***************************************************************************)
Byte == 0..255

\* the n-byte word of a small natural number x (x < 2^31)
FromNat(n, x) ==
    [i \in 1..n |-> IF i <= 4 THEN (x \div (256 ^ (i - 1))) % 256 ELSE 0]

W64(x) == FromNat(8, x)

\* the n-byte word with every bit set (the value -1)
AllOnes(n) == [i \in 1..n |-> 255]

\* a + b modulo 2^(8*Len(a)), for words of up to 8 bytes: ripple carry
Add(a, b) ==
    LET s1 == a[1] + b[1]
        s2 == a[2] + b[2] + (s1 \div 256)
        s3 == a[3] + b[3] + (s2 \div 256)
        s4 == a[4] + b[4] + (s3 \div 256)
        s5 == a[5] + b[5] + (s4 \div 256)
        s6 == a[6] + b[6] + (s5 \div 256)
        s7 == a[7] + b[7] + (s6 \div 256)
        s8 == a[8] + b[8] + (s7 \div 256)
    IN  [i \in 1..Len(a) |->
            (CASE i = 1 -> s1 [] i = 2 -> s2 [] i = 3 -> s3 [] i = 4 -> s4
               [] i = 5 -> s5 [] i = 6 -> s6 [] i = 7 -> s7 [] OTHER -> s8)
            % 256]

\* x & y for bytes
ByteAnd(x, y) ==
      (x % 2) * (y % 2)
    + ((x \div 2) % 2) * ((y \div 2) % 2) * 2
    + ((x \div 4) % 2) * ((y \div 4) % 2) * 4
    + ((x \div 8) % 2) * ((y \div 8) % 2) * 8
    + ((x \div 16) % 2) * ((y \div 16) % 2) * 16
    + ((x \div 32) % 2) * ((y \div 32) % 2) * 32
    + ((x \div 64) % 2) * ((y \div 64) % 2) * 64
    + (x \div 128) * (y \div 128) * 128

\* bitwise a & b and ~a
And(a, b) == [i \in 1..Len(a) |-> ByteAnd(a[i], b[i])]
Not(a) == [i \in 1..Len(a) |-> 255 - a[i]]

\* a - b modulo 2^(8*Len(a))
Sub(a, b) == Add(a, Add(Not(b), FromNat(Len(a), 1)))

\* unsigned a < b
Lt(a, b) ==
    \E i \in 1..Len(a) :
        /\ a[i] < b[i]
        /\ \A j \in (i + 1)..Len(a) : a[j] = b[j]

Le(a, b) == a = b \/ Lt(a, b)

\* bit i of a word, and the n-bit field starting at bit lo (n <= 16)
Bit(w, i) == (w[(i \div 8) + 1] \div (2 ^ (i % 8))) % 2

Field(w, lo, n) ==
    LET b == lo \div 8
        v == w[b + 1]
             + (IF b + 2 <= Len(w) THEN w[b + 2] * 256 ELSE 0)
             + (IF b + 3 <= Len(w) THEN w[b + 3] * 65536 ELSE 0)
    IN  (v \div (2 ^ (lo % 8))) % (2 ^ n)

\* the value of a word below 2^31 (an address of the modelled guest memory),
\* -1 for the words above
ToNat(w) ==
    IF w[4] < 128 /\ \A i \in 5..Len(w) : w[i] = 0
    THEN w[1] + w[2] * 256 + w[3] * 65536 + w[4] * 16777216
    ELSE -1

\* zero-extension of an n-byte word to 8 bytes, truncation to n bytes
ZExt64(w) == [i \in 1..8 |-> IF i <= Len(w) THEN w[i] ELSE 0]
Trunc(w, n) == [i \in 1..n |-> w[i]]

\* value of a 64-bit word modulo m (m < 2^15), most significant byte first
ModWord(w, m) ==
    LET r8 == w[8] % m
        r7 == (r8 * 256 + w[7]) % m
        r6 == (r7 * 256 + w[6]) % m
        r5 == (r6 * 256 + w[5]) % m
        r4 == (r5 * 256 + w[4]) % m
        r3 == (r4 * 256 + w[3]) % m
        r2 == (r3 * 256 + w[2]) % m
    IN  (r2 * 256 + w[1]) % m

(***************************************************************************)
(* riscv-codec.h: instruction length and fetch                             *)
(***************************************************************************)

\* inst_length with the 48-bit test masked to five bits instead of six
inst_length_mask5(inst) ==
    IF Field(inst, 0, 2) # 3 THEN 2
    ELSE IF Field(inst, 2, 3) # 7 THEN 4
    ELSE IF Field(inst, 0, 5) = 31 THEN 6
    ELSE IF Field(inst, 0, 7) = 63 THEN 8
    ELSE 0

\* inst_length answering 8 for the words no pattern matches, as inst_fetch does
inst_length_else8(inst) ==
    IF Field(inst, 0, 2) # 3 THEN 2
    ELSE IF Field(inst, 2, 3) # 7 THEN 4
    ELSE IF Field(inst, 0, 6) = 31 THEN 6
    ELSE 8

\* inst_length with the 32-bit test masked to bits 3:2 only
inst_length_mask32(inst) ==
    IF Field(inst, 0, 2) # 3 THEN 2
    ELSE IF Field(inst, 2, 2) # 3 THEN 4
    ELSE IF Field(inst, 0, 6) = 31 THEN 6
    ELSE IF Field(inst, 0, 7) = 63 THEN 8
    ELSE 0

\* inst_length(uint64_t inst): only the low seven bits are inspected
inst_length(inst) ==
    IF Field(inst, 0, 2) # 3 THEN 2
    ELSE IF Field(inst, 2, 3) # 7 THEN 4
    ELSE IF Field(inst, 0, 6) = 31 THEN 6
    ELSE IF Field(inst, 0, 7) = 63 THEN 8
    ELSE 0

\* the k guest bytes at addr .. addr+k-1, read little-endian into a 64-bit word
ReadLE(m, addr, k) ==
    LET a == ToNat(addr) IN
    [i \in 1..8 |-> IF i <= k THEN m[a + i - 1] ELSE 0]

\* uint64_t(x) << 32 for a word x that fits in 32 bits
Shl32(x) == [i \in 1..8 |-> IF i <= 4 THEN 0 ELSE x[i - 4]]

\* a | b for words with disjoint set bits
Or(a, b) == Not(And(Not(a), Not(b)))

\* inst_fetch that forgets to mask a 16-bit instruction to 16 bits
inst_fetch_unmasked(m, addr) ==
    LET inst == ReadLE(m, addr, 4) IN
    IF Field(inst, 0, 2) # 3 THEN
        [inst |-> inst, len |-> 2, read |-> 4]
    ELSE IF Field(inst, 2, 3) # 7 THEN
        [inst |-> inst, len |-> 4, read |-> 4]
    ELSE IF Field(inst, 0, 6) = 31 THEN
        [inst |-> Or(inst, Shl32(ReadLE(m, Add(addr, W64(4)), 2))),
         len |-> 6, read |-> 6]
    ELSE IF Field(inst, 0, 7) = 63 THEN
        [inst |-> Or(inst, Shl32(ReadLE(m, Add(addr, W64(4)), 4))),
         len |-> 8, read |-> 8]
    ELSE
        [inst |-> W64(0), len |-> 8, read |-> 4]

\* inst_fetch that keeps the bits it read when no length pattern matches
inst_fetch_keep_bits(m, addr) ==
    LET inst == ReadLE(m, addr, 4) IN
    IF Field(inst, 0, 2) # 3 THEN
        [inst |-> And(inst, W64(65535)), len |-> 2, read |-> 4]
    ELSE IF Field(inst, 2, 3) # 7 THEN
        [inst |-> inst, len |-> 4, read |-> 4]
    ELSE IF Field(inst, 0, 6) = 31 THEN
        [inst |-> Or(inst, Shl32(ReadLE(m, Add(addr, W64(4)), 2))),
         len |-> 6, read |-> 6]
    ELSE IF Field(inst, 0, 7) = 63 THEN
        [inst |-> Or(inst, Shl32(ReadLE(m, Add(addr, W64(4)), 4))),
         len |-> 8, read |-> 8]
    ELSE
        [inst |-> inst, len |-> 8, read |-> 4]

\* inst_fetch(addr, &inst_length): the word, its length, and the number of
\* guest bytes at addr that the function dereferenced
inst_fetch(m, addr) ==
    LET inst == ReadLE(m, addr, 4) IN
    IF Field(inst, 0, 2) # 3 THEN
        [inst |-> And(inst, W64(65535)), len |-> 2, read |-> 4]
    ELSE IF Field(inst, 2, 3) # 7 THEN
        [inst |-> inst, len |-> 4, read |-> 4]
    ELSE IF Field(inst, 0, 6) = 31 THEN
        [inst |-> Or(inst, Shl32(ReadLE(m, Add(addr, W64(4)), 2))),
         len |-> 6, read |-> 6]
    ELSE IF Field(inst, 0, 7) = 63 THEN
        [inst |-> Or(inst, Shl32(ReadLE(m, Add(addr, W64(4)), 4))),
         len |-> 8, read |-> 8]
    ELSE
        [inst |-> W64(0), len |-> 8, read |-> 4]

(***************************************************************************)
(* Decoded instruction record (struct decode) and the rv64imafdc decoder.  *)
(* The generated decode tables and the generated interpreter are not part  *)
(* of the sources at hand: they are modelled for the instructions the      *)
(* guest programs below use; every other word decodes to illegal.          *)
(***************************************************************************)

\* decode(): the record as its constructor leaves it (op 0 is illegal)
ZeroDec ==
    [imm |-> 0, inst |-> FromNat(4, 0), rd |-> 0, rs1 |-> 0, rs2 |-> 0,
     op |-> "illegal", codec |-> "illegal"]

\* the 64-bit word of a signed immediate
SInt64(x) == IF x >= 0 THEN W64(x) ELSE Sub(W64(0), W64(-x))

\* sign extension of an n-bit field value v
SignExt(v, n) == IF v >= 2 ^ (n - 1) THEN v - 2 ^ n ELSE v

EcallWord == W64(115)

\* decode_inst_op<rv64, imafdc>: opcode id from the raw bits
decode_inst_op(inst) ==
    IF inst = W64(0) THEN "illegal"
    ELSE IF Field(inst, 0, 2) = 1 THEN
        CASE Field(inst, 13, 3) = 0 -> "c_addi"
          [] Field(inst, 13, 3) = 2 -> "c_li"
          [] OTHER -> "illegal"
    ELSE IF Field(inst, 0, 2) = 2 THEN
        IF Field(inst, 12, 4) = 9 /\ Field(inst, 2, 5) = 0
           /\ Field(inst, 7, 5) # 0
        THEN "c_jalr" ELSE "illegal"
    ELSE IF Field(inst, 0, 7) = 19 /\ Field(inst, 12, 3) = 0 THEN "addi"
    ELSE IF Field(inst, 0, 7) = 103 /\ Field(inst, 12, 3) = 0 THEN "jalr"
    ELSE IF Field(inst, 0, 7) = 35 /\ Field(inst, 12, 3) = 2 THEN "sw"
    ELSE IF Field(inst, 0, 7) = 47 /\ Field(inst, 12, 3) = 2 THEN
        CASE Field(inst, 27, 5) = 2 /\ Field(inst, 20, 5) = 0 -> "lr_w"
          [] Field(inst, 27, 5) = 3 -> "sc_w"
          [] OTHER -> "illegal"
    ELSE IF Field(inst, 0, 7) = 111 THEN "jal"
    ELSE IF inst = EcallWord THEN "ecall"
    ELSE "illegal"

\* decode_inst_op<rv32, imafdc>: as on rv64, but the quadrant-1 pattern with
\* funct3 = 001 is c.jal
decode_inst_op_rv32(inst) ==
    IF Field(inst, 0, 2) = 1 /\ Field(inst, 13, 3) = 1 THEN "c_jal"
    ELSE decode_inst_op(inst)

\* riscv_inst_codec[op]: every opcode id has exactly one codec tag
riscv_inst_codec(op) ==
    CASE op = "addi" -> "i"
      [] op = "jal" -> "uj"
      [] op = "ecall" -> "none"
      [] op = "c_addi" -> "ci"
      [] op = "c_li" -> "ci_li"
      [] op = "jalr" -> "i"
      [] op = "c_jalr" -> "cr_jalr"
      [] op = "c_jal" -> "cj_jal"
      [] op = "sw" -> "s"
      [] op = "lr_w" -> "r_l"
      [] op = "sc_w" -> "r_a"
      [] OTHER -> "illegal"

\* decode_inst_type: codec tag, immediate and register fields per the codec
decode_inst_type(dec, inst) ==
    LET codec == riscv_inst_codec(dec.op)
        cimm == SignExt(Bit(inst, 12) * 32 + Field(inst, 2, 5), 6)
        jimm == SignExt(Bit(inst, 31) * 1048576 + Field(inst, 12, 8) * 4096
                        + Bit(inst, 20) * 2048 + Field(inst, 21, 10) * 2, 21)
        cjimm == SignExt(Bit(inst, 12) * 2048 + Bit(inst, 8) * 1024
                         + Field(inst, 9, 2) * 256 + Bit(inst, 6) * 128
                         + Bit(inst, 7) * 64 + Bit(inst, 2) * 32
                         + Bit(inst, 11) * 16 + Field(inst, 3, 3) * 2, 12)
    IN  CASE codec = "i" ->
               [dec EXCEPT !.codec = codec, !.rd = Field(inst, 7, 5),
                           !.rs1 = Field(inst, 15, 5),
                           !.imm = SignExt(Field(inst, 20, 12), 12)]
          [] codec = "uj" ->
               [dec EXCEPT !.codec = codec, !.rd = Field(inst, 7, 5),
                           !.imm = jimm]
          [] codec = "ci" ->
               [dec EXCEPT !.codec = codec, !.rd = Field(inst, 7, 5),
                           !.rs1 = Field(inst, 7, 5), !.imm = cimm]
          [] codec = "ci_li" ->
               [dec EXCEPT !.codec = codec, !.rd = Field(inst, 7, 5),
                           !.rs1 = 0, !.imm = cimm]
          [] codec = "s" ->
               [dec EXCEPT !.codec = codec, !.rs1 = Field(inst, 15, 5),
                           !.rs2 = Field(inst, 20, 5),
                           !.imm = SignExt(Field(inst, 25, 7) * 32
                                           + Field(inst, 7, 5), 12)]
          [] codec = "r_l" ->
               [dec EXCEPT !.codec = codec, !.rd = Field(inst, 7, 5),
                           !.rs1 = Field(inst, 15, 5)]
          [] codec = "r_a" ->
               [dec EXCEPT !.codec = codec, !.rd = Field(inst, 7, 5),
                           !.rs1 = Field(inst, 15, 5),
                           !.rs2 = Field(inst, 20, 5)]
          [] codec = "cr_jalr" ->
               [dec EXCEPT !.codec = codec, !.rd = 1,
                           !.rs1 = Field(inst, 7, 5), !.imm = 0]
          [] codec = "cj_jal" ->
               [dec EXCEPT !.codec = codec, !.rd = 1, !.imm = cjimm]
          [] OTHER -> [dec EXCEPT !.codec = codec]

\* riscv::decode_inst: dec.rv.inst = u32(inst), then op, then operands
riscv_decode_inst(inst) ==
    decode_inst_type(
        [ZeroDec EXCEPT !.inst = Trunc(inst, 4), !.op = decode_inst_op(inst)],
        inst)

\* riscv::decode_inst<rv32>
riscv_decode_inst_rv32(inst) ==
    decode_inst_type(
        [ZeroDec EXCEPT !.inst = Trunc(inst, 4),
                        !.op = decode_inst_op_rv32(inst)],
        inst)

\* riscv_inst_decomp_rv64[op]: canonical opcode of a compressed opcode
riscv_inst_decomp_rv64(op) ==
    CASE op = "c_addi" -> "addi"
      [] op = "c_li" -> "addi"
      [] op = "c_jalr" -> "jalr"
      [] OTHER -> "illegal"

\* riscv_inst_decomp_rv32[op]: c.jal exists on RV32 only
riscv_inst_decomp_rv32(op) ==
    CASE op = "c_addi" -> "addi"
      [] op = "c_li" -> "addi"
      [] op = "c_jalr" -> "jalr"
      [] op = "c_jal" -> "jal"
      [] OTHER -> "illegal"

\* decompress_inst_rv32: only op and codec are rewritten
decompress_inst_rv32(dec) ==
    LET decomp_op == riscv_inst_decomp_rv32(dec.op) IN
    IF decomp_op # "illegal"
    THEN [dec EXCEPT !.op = decomp_op, !.codec = riscv_inst_codec(decomp_op)]
    ELSE dec

\* a decoder that leaves compressed records as they are
decompress_inst_rv64_off(dec) == dec

\* decompress_inst_rv64 that also clears the immediate of a rewritten record
decompress_inst_rv64_clears_imm(dec) ==
    LET decomp_op == riscv_inst_decomp_rv64(dec.op) IN
    IF decomp_op # "illegal"
    THEN [dec EXCEPT !.op = decomp_op, !.codec = riscv_inst_codec(decomp_op),
                     !.imm = 0]
    ELSE dec

\* decompress_inst_rv64: only op and codec are rewritten
decompress_inst_rv64(dec) ==
    LET decomp_op == riscv_inst_decomp_rv64(dec.op) IN
    IF decomp_op # "illegal"
    THEN [dec EXCEPT !.op = decomp_op, !.codec = riscv_inst_codec(decomp_op)]
    ELSE dec

\* riscv_processor_rv64imafdc_unit::decode_inst
decode_inst(inst) == decompress_inst_rv64(riscv_decode_inst(inst))

\* write of an integer register: x0 ignores writes
WriteReg(ireg, rd, v) == IF rd = 0 THEN ireg ELSE [ireg EXCEPT ![rd] = v]

\* rv64_exec: [handled, proc]; handled = FALSE leaves the processor untouched
rv64_exec(dec, p, len) ==
    CASE dec.op = "addi" ->
           [handled |-> TRUE,
            proc |-> [p EXCEPT
                        !.ireg = WriteReg(p.ireg, dec.rd,
                                          Add(p.ireg[dec.rs1], SInt64(dec.imm))),
                        !.pc = Add(p.pc, W64(len))]]
      [] dec.op = "jal" ->
           [handled |-> TRUE,
            proc |-> [p EXCEPT
                        !.ireg = WriteReg(p.ireg, dec.rd, Add(p.pc, W64(len))),
                        !.pc = Add(p.pc, SInt64(dec.imm))]]
      [] dec.op = "jalr" ->
           [handled |-> TRUE,
            proc |-> [p EXCEPT
                        !.ireg = WriteReg(p.ireg, dec.rd, Add(p.pc, W64(len))),
                        !.pc = And(Add(p.ireg[dec.rs1], SInt64(dec.imm)),
                                   Not(W64(1)))]]
      [] OTHER -> [handled |-> FALSE, proc |-> p]

\* riscv_processor_rv64imafdc_unit::exec_inst
exec_inst(dec, p, len) == rv64_exec(dec, p, len)

\* guest memory m with the 32-bit word v stored at addr
Store32(m, addr, v) ==
    LET a == ToNat(addr) IN
    [x \in DOMAIN m |-> IF a <= x /\ x < a + 4 THEN v[x - a + 1] ELSE m[x]]

\* the 32-bit word at addr, sign-extended to 64 bits
Load32(m, addr) ==
    LET w == ReadLE(m, addr, 4) IN
    [i \in 1..8 |-> IF i <= 4 THEN w[i] ELSE IF w[4] >= 128 THEN 255 ELSE 0]

\* the executor on the instructions that touch guest memory, where a store
\* leaves the reservation of the hart in place
rv64_exec_mem_store_keeps_lr(dec, p, m, len) ==
    LET addr == p.ireg[dec.rs1]
        next == Add(p.pc, W64(len))
    IN  CASE dec.op = "lr_w" ->
               [handled |-> TRUE, mem |-> m,
                proc |-> [p EXCEPT
                            !.ireg = WriteReg(p.ireg, dec.rd, Load32(m, addr)),
                            !.lr = <<addr>>, !.pc = next]]
          [] dec.op = "sc_w" ->
               IF p.lr = <<addr>>
               THEN [handled |-> TRUE,
                     mem |-> Store32(m, addr, p.ireg[dec.rs2]),
                     proc |-> [p EXCEPT
                                 !.ireg = WriteReg(p.ireg, dec.rd, W64(0)),
                                 !.lr = <<>>, !.pc = next]]
               ELSE [handled |-> TRUE, mem |-> m,
                     proc |-> [p EXCEPT
                                 !.ireg = WriteReg(p.ireg, dec.rd, W64(1)),
                                 !.pc = next]]
          [] dec.op = "sw" ->
               [handled |-> TRUE,
                mem |-> Store32(m, Add(addr, SInt64(dec.imm)),
                                p.ireg[dec.rs2]),
                proc |-> [p EXCEPT !.pc = next]]
          [] OTHER ->
               [handled |-> rv64_exec(dec, p, len).handled, mem |-> m,
                proc |-> rv64_exec(dec, p, len).proc]

\* rv64_exec on the instructions that touch guest memory: [handled, proc, mem].
\* lr.w loads the word and sets the reservation of the hart to its address;
\* sc.w stores and writes 0 to rd when the reservation is its address, and
\* writes a non-zero value to rd otherwise; a store and a successful sc.w
\* clear the reservation
rv64_exec_mem(dec, p, m, len) ==
    LET addr == p.ireg[dec.rs1]
        next == Add(p.pc, W64(len))
    IN  CASE dec.op = "lr_w" ->
               [handled |-> TRUE, mem |-> m,
                proc |-> [p EXCEPT
                            !.ireg = WriteReg(p.ireg, dec.rd, Load32(m, addr)),
                            !.lr = <<addr>>, !.pc = next]]
          [] dec.op = "sc_w" ->
               IF p.lr = <<addr>>
               THEN [handled |-> TRUE,
                     mem |-> Store32(m, addr, p.ireg[dec.rs2]),
                     proc |-> [p EXCEPT
                                 !.ireg = WriteReg(p.ireg, dec.rd, W64(0)),
                                 !.lr = <<>>, !.pc = next]]
               ELSE [handled |-> TRUE, mem |-> m,
                     proc |-> [p EXCEPT
                                 !.ireg = WriteReg(p.ireg, dec.rd, W64(1)),
                                 !.pc = next]]
          [] dec.op = "sw" ->
               [handled |-> TRUE,
                mem |-> Store32(m, Add(addr, SInt64(dec.imm)),
                                p.ireg[dec.rs2]),
                proc |-> [p EXCEPT !.lr = <<>>, !.pc = next]]
          [] OTHER ->
               [handled |-> rv64_exec(dec, p, len).handled, mem |-> m,
                proc |-> rv64_exec(dec, p, len).proc]

(***************************************************************************)
(* riscv-unknown-abi.h: the syscall proxy                                  *)
(***************************************************************************)
riscv_ireg_sp == 2
riscv_ireg_a0 == 10
riscv_ireg_a1 == 11
riscv_ireg_a2 == 12
riscv_ireg_a7 == 17

riscv_syscall_close == 57
riscv_syscall_write == 64
riscv_syscall_fstat == 80
riscv_syscall_exit == 93
riscv_syscall_brk == 214

page_size == 4096
ENOMEM == 12
EBADF == 9
EFAULT == 14

\* round_up(x, align) for a power-of-two align, modulo 2^64
round_up(x, align) ==
    And(Add(x, W64(align - 1)), Not(W64(align - 1)))

SetA0(p, v) == [p EXCEPT !.ireg[riscv_ireg_a0] = v]

\* the host's answers to the calls the proxy makes:
\*   ret      return value of close/write/fstat as a 64-bit word (0, -1, a count)
\*   errno    the host's errno after the call (0 when it succeeded)
\*   mmap_ok  whether the mmap inside brk succeeds
QuietEnv == [ret |-> W64(0), errno |-> 0, mmap_ok |-> TRUE]
MmapFails == [ret |-> W64(0), errno |-> ENOMEM, mmap_ok |-> FALSE]

\* a proxied call yields [proc, outcome, fstat_at]: outcome is "ok", "exit"
\* (the host process has terminated) or "panic" (unknown syscall)
Handled(p) == [proc |-> p, outcome |-> "ok", fstat_at |-> <<>>]

\* sys_close: a0 = close(a0)
sys_close(p, env) == Handled(SetA0(p, env.ret))

\* sys_write that also moves the buffer pointer a1 past the bytes written
sys_write_advances_a1(p, env) ==
    Handled([SetA0(p, env.ret) EXCEPT !.ireg[riscv_ireg_a1] = Add(@, env.ret)])

\* sys_write: a0 = write(a0, (void*)a1, a2)
sys_write(p, env) == Handled(SetA0(p, env.ret))

\* sys_fstat that converts host_stat whatever fstat returned
sys_fstat_always_stores(p, env) ==
    [proc |-> SetA0(p, env.ret), outcome |-> "ok",
     fstat_at |-> <<p.ireg[riscv_ireg_a1]>>]

\* sys_fstat: a0 = fstat(a0, &host_stat); on 0 the ABI structure is stored at a1
sys_fstat(p, env) ==
    [proc |-> SetA0(p, env.ret), outcome |-> "ok",
     fstat_at |-> IF env.ret = W64(0) THEN <<p.ireg[riscv_ireg_a1]>> ELSE <<>>]

\* the status the host reports for exit(a0): the low eight bits of a0
ExitStatus(v) == W64(Field(v, 0, 8))

\* sys_exit that comes back to the stepper
sys_exit_returns(p, env) == Handled(p)

\* sys_exit: exit(a0) does not return
sys_exit(p, env) == [proc |-> p, outcome |-> "exit", fstat_at |-> <<>>]

\* sys_brk that only compares heap_end with the rounded request
sys_brk_no_equal_test(p, env) ==
    LET new_addr == p.ireg[riscv_ireg_a0]
        curr_heap_end == round_up(p.heap_end, page_size)
        new_heap_end == round_up(new_addr, page_size)
    IN  IF Le(new_heap_end, p.heap_end)
        THEN Handled(SetA0(p, new_addr))
        ELSE IF ~env.mmap_ok
        THEN Handled(SetA0(p, Sub(W64(0), W64(ENOMEM))))
        ELSE Handled(SetA0(
                 [p EXCEPT
                    !.mapped_segments =
                        Append(@, <<curr_heap_end,
                                    Sub(new_heap_end, curr_heap_end)>>),
                    !.heap_end = new_heap_end],
                 new_addr))

\* sys_brk that maps and records the new region from heap_end itself
sys_brk_from_heap_end(p, env) ==
    LET new_addr == p.ireg[riscv_ireg_a0]
        curr_heap_end == round_up(p.heap_end, page_size)
        new_heap_end == round_up(new_addr, page_size)
    IN  IF Le(new_heap_end, p.heap_end) \/ new_heap_end = curr_heap_end
        THEN Handled(SetA0(p, new_addr))
        ELSE IF ~env.mmap_ok
        THEN Handled(SetA0(p, Sub(W64(0), W64(ENOMEM))))
        ELSE Handled(SetA0(
                 [p EXCEPT
                    !.mapped_segments =
                        Append(@, <<p.heap_end,
                                    Sub(new_heap_end, p.heap_end)>>),
                    !.heap_end = new_heap_end],
                 new_addr))

\* sys_brk that answers a failed mmap with the requested address
sys_brk_failure_unreported(p, env) ==
    LET new_addr == p.ireg[riscv_ireg_a0]
        curr_heap_end == round_up(p.heap_end, page_size)
        new_heap_end == round_up(new_addr, page_size)
    IN  IF Le(new_heap_end, p.heap_end) \/ new_heap_end = curr_heap_end
        THEN Handled(SetA0(p, new_addr))
        ELSE IF ~env.mmap_ok
        THEN Handled(SetA0(p, new_addr))
        ELSE Handled(SetA0(
                 [p EXCEPT
                    !.mapped_segments =
                        Append(@, <<curr_heap_end,
                                    Sub(new_heap_end, curr_heap_end)>>),
                    !.heap_end = new_heap_end],
                 new_addr))


\* sys_brk whose new region starts at the bottom of the heap every time
sys_brk_maps_whole_heap(p, env) ==
    LET new_addr == p.ireg[riscv_ireg_a0]
        curr_heap_end == round_up(p.heap_end, page_size)
        new_heap_end == round_up(new_addr, page_size)
        bottom == round_up(p.heap_begin, page_size)
    IN  IF Le(new_heap_end, p.heap_end) \/ new_heap_end = curr_heap_end
        THEN Handled(SetA0(p, new_addr))
        ELSE IF ~env.mmap_ok
        THEN Handled(SetA0(p, Sub(W64(0), W64(ENOMEM))))
        ELSE Handled(SetA0(
                 [p EXCEPT
                    !.mapped_segments =
                        Append(@, <<bottom, Sub(new_heap_end, bottom)>>),
                    !.heap_end = new_heap_end],
                 new_addr))

\* sys_brk that moves heap_end to the address asked for, not to its page
sys_brk_unrounded_end(p, env) ==
    LET new_addr == p.ireg[riscv_ireg_a0]
        curr_heap_end == round_up(p.heap_end, page_size)
        new_heap_end == round_up(new_addr, page_size)
    IN  IF Le(new_heap_end, p.heap_end) \/ new_heap_end = curr_heap_end
        THEN Handled(SetA0(p, new_addr))
        ELSE IF ~env.mmap_ok
        THEN Handled(SetA0(p, Sub(W64(0), W64(ENOMEM))))
        ELSE Handled(SetA0(
                 [p EXCEPT
                    !.mapped_segments =
                        Append(@, <<curr_heap_end,
                                    Sub(new_heap_end, curr_heap_end)>>),
                    !.heap_end = new_addr],
                 new_addr))

\* sys_brk
sys_brk(p, env) ==
    LET new_addr == p.ireg[riscv_ireg_a0]
        curr_heap_end == round_up(p.heap_end, page_size)
        new_heap_end == round_up(new_addr, page_size)
    IN  IF Le(new_heap_end, p.heap_end) \/ new_heap_end = curr_heap_end
        THEN Handled(SetA0(p, new_addr))
        ELSE IF ~env.mmap_ok
        THEN Handled(SetA0(p, Sub(W64(0), W64(ENOMEM))))
        ELSE Handled(SetA0(
                 [p EXCEPT
                    !.mapped_segments =
                        Append(@, <<curr_heap_end,
                                    Sub(new_heap_end, curr_heap_end)>>),
                    !.heap_end = new_heap_end],
                 new_addr))

\* proxy_syscall whose switch has an empty default
proxy_syscall_default_ignored(p, env) ==
    LET a7 == p.ireg[riscv_ireg_a7] IN
    CASE a7 = W64(riscv_syscall_close) -> sys_close(p, env)
      [] a7 = W64(riscv_syscall_write) -> sys_write(p, env)
      [] a7 = W64(riscv_syscall_fstat) -> sys_fstat(p, env)
      [] a7 = W64(riscv_syscall_exit) -> sys_exit(p, env)
      [] a7 = W64(riscv_syscall_brk) -> sys_brk(p, env)
      [] OTHER -> Handled(p)

\* proxy_syscall: dispatch on a7
proxy_syscall(p, env) ==
    LET a7 == p.ireg[riscv_ireg_a7] IN
    CASE a7 = W64(riscv_syscall_close) -> sys_close(p, env)
      [] a7 = W64(riscv_syscall_write) -> sys_write(p, env)
      [] a7 = W64(riscv_syscall_fstat) -> sys_fstat(p, env)
      [] a7 = W64(riscv_syscall_exit) -> sys_exit(p, env)
      [] a7 = W64(riscv_syscall_brk) -> sys_brk(p, env)
      [] OTHER -> [proc |-> p, outcome |-> "panic", fstat_at |-> <<>>]

(***************************************************************************)
(* riscv_proxy_runner: the decode cache and one iteration of step()        *)
(***************************************************************************)
inst_cache_size == 8191

\* The cache array is kept sparse: ent holds the slots written so far, and
\* every other slot still has the content the array had when the processor
\* object was created: an indeterminate inst word (init) and a
\* default-constructed record.
CacheSlot(cache, key) ==
    IF key \in DOMAIN cache.ent
    THEN cache.ent[key]
    ELSE [inst |-> cache.init, dec |-> ZeroDec]

\* a cache that keeps the first word stored in a slot
CacheStore_keeps_first(cache, key, e) ==
    [cache EXCEPT !.ent = [k \in DOMAIN @ \cup {key} |->
                              IF k \in DOMAIN @ THEN @[k] ELSE e]]

\* a cache that files a word one slot after its key
CacheStore_next_slot(cache, key, e) ==
    [cache EXCEPT !.ent = [k \in DOMAIN @ \cup {key + 1} |->
                              IF k = key + 1 THEN e ELSE @[k]]]

CacheStore(cache, key, e) ==
    [cache EXCEPT !.ent = [k \in DOMAIN @ \cup {key} |->
                              IF k = key THEN e ELSE @[k]]]

\* step() that hands every unhandled opcode to the proxy, ecall or not
step_executed_proxy_any(f, key, hit, dec, cache2, ex, sc, p, env) ==
    LET it == [inst |-> f.inst, len |-> f.len, key |-> key,
               hit |-> hit, op |-> dec.op, pc |-> p.pc, ireg |-> p.ireg,
               heap_begin |-> p.heap_begin, heap_end |-> p.heap_end,
               segs |-> p.mapped_segments, env |-> QuietEnv,
               handled |-> ex.handled, proxied |-> FALSE]
    IN  IF ex.handled THEN
            [proc |-> ex.proc, cache |-> cache2, result |-> "continue",
             fstat_at |-> <<>>, it |-> it]
        ELSE IF dec.op = "ecall" \/ dec.op = "illegal" THEN
            [proc |-> IF sc.outcome = "ok"
                      THEN [sc.proc EXCEPT !.pc = Add(@, W64(f.len))]
                      ELSE sc.proc,
             cache |-> cache2,
             result |-> IF sc.outcome = "ok" THEN "continue" ELSE sc.outcome,
             fstat_at |-> sc.fstat_at,
             it |-> [it EXCEPT !.proxied = TRUE, !.env = env]]
        ELSE
            [proc |-> p, cache |-> cache2, result |-> "false",
             fstat_at |-> <<>>, it |-> it]

\* step() that leaves PC on the ecall after the proxy has returned
step_executed_no_advance(f, key, hit, dec, cache2, ex, sc, p, env) ==
    LET it == [inst |-> f.inst, len |-> f.len, key |-> key,
               hit |-> hit, op |-> dec.op, pc |-> p.pc, ireg |-> p.ireg,
               heap_begin |-> p.heap_begin, heap_end |-> p.heap_end,
               segs |-> p.mapped_segments, env |-> QuietEnv,
               handled |-> ex.handled, proxied |-> FALSE]
    IN  IF ex.handled THEN
            [proc |-> ex.proc, cache |-> cache2, result |-> "continue",
             fstat_at |-> <<>>, it |-> it]
        ELSE IF dec.op = "ecall" THEN
            [proc |-> IF sc.outcome = "ok"
                      THEN sc.proc
                      ELSE sc.proc,
             cache |-> cache2,
             result |-> IF sc.outcome = "ok" THEN "continue" ELSE sc.outcome,
             fstat_at |-> sc.fstat_at,
             it |-> [it EXCEPT !.proxied = TRUE, !.env = env]]
        ELSE
            [proc |-> p, cache |-> cache2, result |-> "false",
             fstat_at |-> <<>>, it |-> it]

\* step(), from exec_inst on: an instruction the executor handles continues
\* the loop; an ecall goes to proxy_syscall (sc) and PC moves past it; any
\* other instruction makes step return false. `it` records the iteration
step_executed(f, key, hit, dec, cache2, ex, sc, p, env) ==
    LET it == [inst |-> f.inst, len |-> f.len, key |-> key,
               hit |-> hit, op |-> dec.op, pc |-> p.pc, ireg |-> p.ireg,
               heap_begin |-> p.heap_begin, heap_end |-> p.heap_end,
               segs |-> p.mapped_segments, env |-> QuietEnv,
               handled |-> ex.handled, proxied |-> FALSE]
    IN  IF ex.handled THEN
            [proc |-> ex.proc, cache |-> cache2, result |-> "continue",
             fstat_at |-> <<>>, it |-> it]
        ELSE IF dec.op = "ecall" THEN
            [proc |-> IF sc.outcome = "ok"
                      THEN [sc.proc EXCEPT !.pc = Add(@, W64(f.len))]
                      ELSE sc.proc,
             cache |-> cache2,
             result |-> IF sc.outcome = "ok" THEN "continue" ELSE sc.outcome,
             fstat_at |-> sc.fstat_at,
             it |-> [it EXCEPT !.proxied = TRUE, !.env = env]]
        ELSE
            [proc |-> p, cache |-> cache2, result |-> "false",
             fstat_at |-> <<>>, it |-> it]

\* step(), from the cache lookup on: a miss stores the word and its record
step_decoded(f, key, hit, dec, p, cache, env) ==
    step_executed(f, key, hit, dec,
                  IF hit THEN cache
                  ELSE CacheStore(cache, key, [inst |-> f.inst, dec |-> dec]),
                  exec_inst(dec, p, f.len), proxy_syscall(p, env), p, env)

\* step(), the cache lookup: the slot's record on a hit, decode_inst otherwise
step_fetched(f, inst_cache_key, p, cache, env) ==
    LET slot == CacheSlot(cache, inst_cache_key) IN
    step_decoded(f, inst_cache_key, slot.inst = f.inst,
                 IF slot.inst = f.inst THEN slot.dec ELSE decode_inst(f.inst),
                 p, cache, env)

\* body of the while loop of step(), for a cache of `size` slots
step_iteration(m, p, cache, size, env) ==
    LET f == inst_fetch(m, p.pc) IN
    step_fetched(f, ModWord(f.inst, size), p, cache, env)

(***************************************************************************)
(* Guest programs: real RV64 encodings, laid out little-endian             *)
(***************************************************************************)

\* addi rd, rs1, imm (imm12 is the 12-bit two's complement of imm)
Addi(rd, rs1, imm12) ==
    <<19 + (rd % 2) * 128, (rd \div 2) + (rs1 % 2) * 128,
      (rs1 \div 2) + (imm12 % 16) * 16, imm12 \div 16>>

Ecall == <<115, 0, 0, 0>>            \* 0x00000073
LiA0 == Addi(10, 0, 1)               \* li a0, 1   (0x00100513, key 1427)
LiA1 == Addi(11, 0, 0)               \* li a1, 0   (0x00000593, key 1427)
CAddiA0 == <<5, 5>>                  \* c.addi a0, 1  (0x0505)
JalSelf == <<111, 0, 0, 0>>          \* jal x0, 0: a jump to itself
Illegal32 == <<123, 0, 0, 0>>        \* 0x0000007b, a 4-byte word with no opcode
Word48 == <<31, 0, 0, 0, 1, 2>>      \* 48-bit length pattern 011111
WordLong == <<127, 1, 2, 3, 4, 5, 6, 7>> \* low seven bits 1111111: no length

\* numbers a guest may load into a7: the five proxied calls and an unknown one
SyscallNumbers ==
    {riscv_syscall_close, riscv_syscall_write, riscv_syscall_fstat,
     riscv_syscall_exit, riscv_syscall_brk, riscv_syscall_exit + 1}

\* bounds of the guest programs and of a run
MaxBody == 2       \* straight-line instructions after the optional li a7
MaxRetired == 4    \* instructions retired that the run is followed for

Quantum == 1024

Straight == {Ecall, LiA0, LiA1, CAddiA0}
Terminators == {<<>>, JalSelf, Illegal32, Word48, WordLong}
Prologues == {<<>>} \cup {Addi(riscv_ireg_a7, 0, n) : n \in SyscallNumbers}

RECURSIVE SeqsUpTo(_, _)
SeqsUpTo(S, n) ==
    IF n = 0 THEN {<<>>}
    ELSE LET shorter == SeqsUpTo(S, n - 1)
         IN  shorter \cup {Append(q, x) : q \in shorter, x \in S}

RECURSIVE Flatten(_)
Flatten(q) == IF q = <<>> THEN <<>> ELSE Head(q) \o Flatten(Tail(q))

Contains(q, x) == \E i \in 1..Len(q) : q[i] = x

\* a program: li a7, n when the body makes an environment call; up to MaxBody
\* straight instructions; a terminator (none: the zero fill follows)
Programs ==
    {Flatten(<<pg[1]>> \o pg[2] \o <<pg[3]>>) :
        pg \in {x \in Prologues \X SeqsUpTo(Straight, MaxBody) \X Terminators :
                   x[1] = <<>> \/ Contains(x[2], Ecall)}}

TextBase == W64(65536)
TextSize == 4 + 4 * MaxBody + 8 + 8

\* the text segment holding program bytes `code`, zero filled to TextSize
TextImage(code) ==
    [a \in ToNat(TextBase)..(ToNat(TextBase) + TextSize - 1) |->
        IF a - ToNat(TextBase) < Len(code)
        THEN code[a - ToNat(TextBase) + 1] ELSE 0]

(***************************************************************************)
(* ELF input (elf.ehdr.e_entry, elf.phdrs) and the emulator's constants    *)
(***************************************************************************)
PT_LOAD == 1
PF_X == 1
PF_W == 2
PF_R == 4

stack_top == W64(2013265920)      \* 0x78000000
stack_size == W64(16777216)       \* 0x01000000

TextPhdr ==
    [p_type |-> PT_LOAD, p_flags |-> PF_R + PF_X,
     p_vaddr |-> TextBase, p_memsz |-> W64(TextSize)]

\* indeterminate contents of the never-written inst fields of the cache:
\* zero pages, bits that match no instruction, or stale bits that happen to
\* equal an instruction word of the program
CacheGarbage == {W64(0), AllOnes(8), ZExt64(LiA0)}

NoIteration ==
    [inst |-> W64(0), len |-> 0, key |-> 0, hit |-> FALSE, op |-> "none",
     pc |-> W64(0), ireg |-> [r \in 0..31 |-> W64(0)],
     heap_begin |-> W64(0), heap_end |-> W64(0), segs |-> <<>>,
     env |-> QuietEnv, handled |-> FALSE, proxied |-> FALSE]

\* riscv_processor_base(): the processor as constructed
NewProc ==
    [pc |-> W64(0), ireg |-> [r \in 0..31 |-> W64(0)], lr |-> <<>>,
     heap_begin |-> W64(0), heap_end |-> W64(0), mapped_segments |-> <<>>]

\* the ELF file read by elf.load and the control state of start(): the text of
\* the guest programs is entered at TextBase
NewRun(phdrs) ==
    [phase |-> "load", e_entry |-> TextBase, phdrs |-> phdrs, k |-> 1,
     i |-> 0, count |-> 0,
     retired |-> 0, proxy_calls |-> 0, last |-> NoIteration,
     returned |-> "none", exit_status |-> <<>>, fstat_at |-> <<>>,
     unmapped |-> <<>>, brk |-> <<>>, armed |-> FALSE]

(***************************************************************************)
(* riscv_emulator::start and riscv_proxy_runner::step                      *)
(***************************************************************************)

\* elf_p_flags_mmap: the protection of a load segment's mapping
elf_p_flags_mmap(v) ==
    (IF ByteAnd(v, PF_X) # 0 THEN {"PROT_EXEC"} ELSE {})
    \cup (IF ByteAnd(v, PF_W) # 0 THEN {"PROT_WRITE"} ELSE {})
    \cup (IF ByteAnd(v, PF_R) # 0 THEN {"PROT_READ"} ELSE {})

\* the program headers the loop of start() hands to map_load_segment
MappedPhdrs(phdrs) ==
    SelectSeq(phdrs, LAMBDA h : ByteAnd(h.p_flags, PT_LOAD) # 0)

\* protection of the i-th region of the segment list: the load segments come
\* first, the stack and the brk regions are mapped PROT_READ | PROT_WRITE
SegProt(phdrs, i) ==
    IF i <= Len(MappedPhdrs(phdrs))
    THEN elf_p_flags_mmap(MappedPhdrs(phdrs)[i].p_flags)
    ELSE {"PROT_READ", "PROT_WRITE"}

\* the host maps whole pages: a region (addr, len) reaches to the end of the
\* page that holds its last byte
InRegion(a, seg) ==
    /\ Le(seg[1], a)
    /\ Lt(a, round_up(Add(seg[1], seg[2]), page_size))

\* protection of guest address a: that of the last region mapped over it
\* (MAP_FIXED replaces what was there), none where nothing is mapped
ProtAt(p, phdrs, a) ==
    LET over == {i \in 1..Len(p.mapped_segments) :
                    InRegion(a, p.mapped_segments[i])}
    IN  IF over = {} THEN {}
        ELSE SegProt(phdrs, CHOOSE i \in over : \A j \in over : j <= i)

\* what the host's mmap may answer for a load segment: a range of length zero
\* or one that runs past the end of the address space is always refused
MmapLoadAnswers(phdr) ==
    IF phdr.p_memsz = W64(0)
       \/ Lt(Add(phdr.p_vaddr, phdr.p_memsz), phdr.p_vaddr)
    THEN {FALSE}
    ELSE BOOLEAN

\* map_load_segment that moves the heap to the end of every segment it maps
map_load_segment_last_wins(p, phdr) ==
    LET seg_end == Add(phdr.p_vaddr, phdr.p_memsz)
        q == [p EXCEPT !.mapped_segments =
                           Append(@, <<phdr.p_vaddr, phdr.p_memsz>>)]
    IN  [q EXCEPT !.heap_begin = seg_end, !.heap_end = seg_end]

\* map_load_segment after a successful mmap
map_load_segment(p, phdr) ==
    LET seg_end == Add(phdr.p_vaddr, phdr.p_memsz)
        q == [p EXCEPT !.mapped_segments =
                           Append(@, <<phdr.p_vaddr, phdr.p_memsz>>)]
    IN  IF Lt(q.heap_begin, seg_end)
        THEN [q EXCEPT !.heap_begin = seg_end, !.heap_end = seg_end]
        ELSE q

\* map_stack that leaves sp at the very top of the stack region
map_stack_sp_top(p) ==
    [p EXCEPT !.mapped_segments =
                  Append(@, <<Sub(stack_top, stack_size), stack_size>>),
              !.ireg[riscv_ireg_sp] = stack_top]

\* map_stack after a successful mmap
map_stack(p) ==
    [p EXCEPT !.mapped_segments =
                  Append(@, <<Sub(stack_top, stack_size), stack_size>>),
              !.ireg[riscv_ireg_sp] = Sub(stack_top, W64(8))]

\* the runner with a one-slot cache follows every step when it is switched on:
\* q is its processor after the same set-up call
ShadowSetup(q) ==
    IF shadow.on
    THEN shadow' = [shadow EXCEPT !.proc = q]
    ELSE UNCHANGED shadow

\* panic() in map_load_segment / map_stack: the emulator aborts during setup
Panic == run' = [run EXCEPT !.phase = "setup_failed"]

\* start(): one program header of the loop over elf.phdrs
LoadSegment ==
    /\ run.phase = "load"
    /\ run.k <= Len(run.phdrs)
    /\ LET phdr == run.phdrs[run.k]
           Map(p) == map_load_segment(p, phdr)
       IN  IF ByteAnd(phdr.p_flags, PT_LOAD) # 0
           THEN \E ok \in MmapLoadAnswers(phdr) :
                   IF ok
                   THEN /\ proc' = Map(proc)
                        /\ ShadowSetup(Map(shadow.proc))
                        /\ run' = [run EXCEPT !.k = @ + 1]
                   ELSE /\ Panic
                        /\ UNCHANGED <<proc, shadow>>
           ELSE /\ run' = [run EXCEPT !.k = @ + 1]
                /\ UNCHANGED <<proc, shadow>>
    /\ UNCHANGED <<mem, fetched, inst_cache>>

\* start(): map_stack(proc, stack_top, stack_size)
MapStack ==
    /\ run.phase = "load"
    /\ run.k > Len(run.phdrs)
    /\ \E ok \in BOOLEAN :
          IF ok
          THEN /\ proc' = map_stack(proc)
               /\ ShadowSetup(map_stack(shadow.proc))
               /\ run' = [run EXCEPT !.phase = "loop"]
          ELSE /\ Panic
               /\ UNCHANGED <<proc, shadow>>
    /\ UNCHANGED <<mem, fetched, inst_cache>>

StepCounts == {0, 1, Quantum}

\* a call step(count): start() passes 1024
StepCall ==
    /\ run.phase = "loop"
    /\ \E count \in StepCounts :
          run' = [run EXCEPT !.phase = "step", !.count = count, !.i = 0,
                             !.retired = 0, !.returned = "none"]
    /\ UNCHANGED <<mem, fetched, proc, inst_cache, shadow>>

\* what the host may answer to the call an ecall proxies: close, write and
\* fstat return 0, the number of bytes asked for, or -1 with errno set; the
\* mmap inside brk, when brk gets as far as calling it, succeeds or fails
HostEnv(m, p) ==
    IF ~step_iteration(m, p, [init |-> AllOnes(8), ent |-> <<>>],
                       inst_cache_size, QuietEnv).it.proxied
    THEN {QuietEnv}
    ELSE IF p.ireg[riscv_ireg_a7] = W64(riscv_syscall_brk)
    THEN IF sys_brk(p, MmapFails) = sys_brk(p, QuietEnv)
         THEN {QuietEnv}
         ELSE {QuietEnv, MmapFails}
    ELSE [ret : {W64(0), p.ireg[riscv_ireg_a2]}, errno : {0}, mmap_ok : {TRUE}]
         \cup [ret : {AllOnes(8)}, errno : {EBADF, EFAULT}, mmap_ok : {TRUE}]

\* the control state after one iteration of the loop with outcome r; the
\* locals of step() are gone once it has returned. run.brk keeps the brk calls
\* made so far: the request, the heap cursors and segment list before the
\* call, the host's answer and the value left in a0
AfterIteration(r) ==
    LET isbrk == r.it.proxied
                   /\ r.it.ireg[riscv_ireg_a7] = W64(riscv_syscall_brk)
        call == [new_addr |-> r.it.ireg[riscv_ireg_a0],
                 mmap_ok |-> r.it.env.mmap_ok,
                 heap_begin |-> r.it.heap_begin, heap_end |-> r.it.heap_end,
                 segs |-> r.it.segs, ret |-> r.proc.ireg[riscv_ireg_a0]]
        seen == [run EXCEPT !.last = r.it,
                            !.proxy_calls = @ + (IF r.it.proxied THEN 1 ELSE 0),
                            !.fstat_at = r.fstat_at,
                            !.brk = IF isbrk THEN Append(@, call) ELSE @,
                            !.armed = FALSE]
        left == [seen EXCEPT !.count = 0, !.i = 0]
    IN  CASE r.result = "continue" -> [seen EXCEPT !.retired = @ + 1]
          [] r.result = "false" ->
               [left EXCEPT !.phase = "unmap", !.returned = "false"]
          [] r.result = "exit" ->
               [left EXCEPT !.phase = "exited",
                            !.exit_status = <<ExitStatus(r.proc.ireg[riscv_ireg_a0])>>]
          [] OTHER -> [left EXCEPT !.phase = "panic"]

\* one iteration of the while loop of step(): i is not advanced by the body
StepIteration ==
    /\ run.phase = "step"
    /\ run.i < run.count
    /\ run.retired < MaxRetired
    /\ \E env \in HostEnv(mem, proc) :
          LET r == step_iteration(mem, proc, inst_cache, inst_cache_size, env)
              r1 == step_iteration(mem, shadow.proc, shadow.cache, 1, env)
          IN  /\ proc' = r.proc
              /\ inst_cache' = r.cache
              /\ run' = AfterIteration(r)
              /\ IF shadow.on /\ shadow.result = "continue"
                 THEN shadow' = [shadow EXCEPT !.proc = r1.proc,
                                               !.cache = r1.cache,
                                               !.result = r1.result]
                 ELSE UNCHANGED shadow
    /\ UNCHANGED <<mem, fetched>>

\* start() that calls step once and goes on to unmap whatever it returned
StepReturnTrue_ends_run ==
    /\ run.phase = "step"
    /\ ~(run.i < run.count)
    /\ run' = [run EXCEPT !.phase = "unmap", !.returned = "true",
                          !.count = 0, !.i = 0]
    /\ UNCHANGED <<mem, fetched, proc, inst_cache, shadow>>

\* step(): the loop condition fails and step returns true
StepReturnTrue ==
    /\ run.phase = "step"
    /\ ~(run.i < run.count)
    /\ run' = [run EXCEPT !.phase = "loop", !.returned = "true",
                          !.count = 0, !.i = 0]
    /\ UNCHANGED <<mem, fetched, proc, inst_cache, shadow>>

\* munmap loop that walks the segment list from its end
Unmap_reverse ==
    /\ run.phase = "unmap"
    /\ Len(run.unmapped) < Len(proc.mapped_segments)
    /\ run' = [run EXCEPT !.unmapped =
                   Append(@, proc.mapped_segments[Len(proc.mapped_segments)
                                                  - Len(@)])]
    /\ UNCHANGED <<mem, fetched, proc, inst_cache, shadow>>

\* start(): munmap(seg.first, seg.second) of the next segment once step has
\* returned false; run.unmapped lists the regions released so far
Unmap ==
    /\ run.phase = "unmap"
    /\ Len(run.unmapped) < Len(proc.mapped_segments)
    /\ run' = [run EXCEPT !.unmapped =
                   Append(@, proc.mapped_segments[Len(@) + 1])]
    /\ UNCHANGED <<mem, fetched, proc, inst_cache, shadow>>

\* start() returns
StartReturn ==
    /\ run.phase = "unmap"
    /\ Len(run.unmapped) = Len(proc.mapped_segments)
    /\ run' = [run EXCEPT !.phase = "done"]
    /\ UNCHANGED <<mem, fetched, proc, inst_cache, shadow>>

NoFetch == [kind |-> "none"]

ShadowOff ==
    [on |-> FALSE, proc |-> NewProc, cache |-> [init |-> W64(0), ent |-> <<>>],
     result |-> "continue"]

InitRunner ==
    /\ \E code \in Programs : mem = TextImage(code)
    /\ fetched = NoFetch
    /\ proc = [NewProc EXCEPT !.pc = TextBase]
    /\ \E g \in CacheGarbage : inst_cache = [init |-> g, ent |-> <<>>]
    /\ run = NewRun(<<TextPhdr>>)

Init ==
    /\ InitRunner
    /\ shadow = ShadowOff

\* the same start state for a runner whose cache has one slot; the
\* indeterminate contents of the two arrays are independent
InitDual ==
    /\ InitRunner
    /\ \E g1 \in {W64(0), AllOnes(8)} :
          shadow = [on |-> TRUE, proc |-> proc,
                    cache |-> [init |-> g1, ent |-> <<>>],
                    result |-> "continue"]

Next ==
    \/ LoadSegment
    \/ MapStack
    \/ StepCall
    \/ StepIteration
    \/ StepReturnTrue
    \/ Unmap
    \/ StartReturn

Spec == Init /\ [][Next]_vars

\* both runners side by side, driven by the same host answers
SpecDual == InitDual /\ [][Next]_vars

(***************************************************************************)
(* The codec on its own: inst_length and inst_fetch applied to a window of *)
(* eight guest bytes at CodecAddr                                          *)
(***************************************************************************)
CodecAddr == TextBase

\* bytes 1..7 of the window: zero, all ones, and pairwise distinct bytes
WindowTails ==
    {<<0, 0, 0, 0, 0, 0, 0>>, <<255, 255, 255, 255, 255, 255, 255>>,
     <<18, 52, 86, 120, 154, 188, 222>>}

\* the eight bytes at CodecAddr, least significant first
Window == ReadLE(mem, CodecAddr, 8)

InitCodec ==
    /\ \E b0 \in Byte, t \in WindowTails :
          mem = [a \in ToNat(CodecAddr)..(ToNat(CodecAddr) + 7) |->
                    (<<b0>> \o t)[a - ToNat(CodecAddr) + 1]]
    /\ fetched = NoFetch
    /\ proc = NewProc
    /\ inst_cache = [init |-> W64(0), ent |-> <<>>]
    /\ run = [NewRun(<<>>) EXCEPT !.phase = "codec"]
    /\ shadow = ShadowOff

\* inst_length(w) for the 64-bit word w at CodecAddr
ClassifyLength ==
    /\ run.phase = "codec"
    /\ fetched.kind = "none"
    /\ fetched' = [kind |-> "length", len |-> inst_length(Window)]
    /\ UNCHANGED <<mem, proc, inst_cache, run, shadow>>

\* inst_fetch(CodecAddr, &len)
FetchWindow ==
    /\ run.phase = "codec"
    /\ fetched.kind = "none"
    /\ fetched' = [kind |-> "fetch", f |-> inst_fetch(mem, CodecAddr)]
    /\ UNCHANGED <<mem, proc, inst_cache, run, shadow>>

NextCodec == ClassifyLength \/ FetchWindow

SpecCodec == InitCodec /\ [][NextCodec]_vars

\* the four length patterns, read off the low byte of the window
LowByte == mem[ToNat(CodecAddr)]
Pattern16 == LowByte % 4 # 3
Pattern32 == LowByte % 4 = 3 /\ (LowByte \div 4) % 8 # 7
Pattern48 == LowByte % 64 = 31
Pattern64 == LowByte % 128 = 63
PatternsMatched ==
    {n \in {2, 4, 6, 8} :
        \/ n = 2 /\ Pattern16
        \/ n = 4 /\ Pattern32
        \/ n = 6 /\ Pattern48
        \/ n = 8 /\ Pattern64}

ReportedLength ==
    IF fetched.kind = "length" THEN fetched.len ELSE fetched.f.len

\* C7 as stated: low two bits 11 and low five bits # 11100 give a 32-bit
\* instruction (inst_length returns 4, inst_fetch reports 4).
C7_LowFiveNot11100 ==
    (fetched.kind # "none" /\ LowByte % 4 = 3 /\ LowByte % 32 # 28)
        => ReportedLength = 4

\* C7 amended: low two bits 11 and bits [4:2] # 111 give a 32-bit instruction
\* (inst_length returns 4, inst_fetch reports 4 and the four bytes read).
C7_Bits4to2Not111 ==
    (fetched.kind # "none" /\ LowByte % 4 = 3 /\ (LowByte \div 4) % 8 # 7)
        => /\ ReportedLength = 4
           /\ fetched.kind = "fetch" => fetched.f.inst = ReadLE(mem, CodecAddr, 4)

C7_Witness ==
    /\ fetched.kind = "fetch"
    /\ LowByte = 115
    /\ fetched.f.len = 4
    /\ mem[ToNat(CodecAddr) + 4] # 0

\* C8: on a window matching a legal pattern inst_fetch returns the length
\* inst_length gives for the window and the window masked to that length: the
\* first `length` bytes little-endian, every higher bit zero.
C8_FetchMasksToLength ==
    (fetched.kind = "fetch" /\ PatternsMatched # {}) =>
        /\ fetched.f.len = inst_length(Window)
        /\ fetched.f.inst =
               [i \in 1..8 |-> IF i <= fetched.f.len THEN Window[i] ELSE 0]

C8_Witness ==
    /\ fetched.kind = "fetch"
    /\ fetched.f.len = 2
    /\ Window[3] # 0
    /\ fetched.f.inst[3] = 0

(***************************************************************************)
(* Claims about the stepper                                                *)
(***************************************************************************)

\* what the runner with the 8191-slot cache has come to
MainResult ==
    CASE run.phase \in {"unmap", "done"} -> "false"
      [] run.phase = "exited" -> "exit"
      [] run.phase = "panic" -> "panic"
      [] OTHER -> "continue"

\* C1: with a one-slot cache and with the 8191-slot cache the stepper yields
\* the same architectural state (integer registers, PC, heap_begin, heap_end,
\* segment list) after each retired instruction and the same halt/continue
\* outcome.
C1_CacheTransparent ==
    shadow.on =>
        /\ shadow.proc = proc
        /\ shadow.result = MainResult

\* the same, for runs in which no never-written slot happens to hold the bits
\* of an instruction of the program
C1_TransparentOnWrittenSlots ==
    (shadow.on /\ inst_cache.init \in {W64(0), AllOnes(8)}) =>
        /\ shadow.proc = proc
        /\ shadow.result = MainResult

\* C2: one call step(count) retires at most count instructions (and returns
\* true once count instructions have been retired without a halt).
C2_QuantumRespected ==
    run.phase = "step" => run.retired <= run.count

\* C3: when execute returns false for an opcode that is not ecall, step
\* returns false in that iteration, the proxy is not invoked, exit is not
\* called, and PC and the integer registers are as before the fetch.
C3_IllegalHalts ==
    (run.last.op \notin {"none", "ecall"} /\ ~run.last.handled) =>
        /\ run.phase \in {"unmap", "done"}
        /\ run.returned = "false"
        /\ ~run.last.proxied
        /\ run.exit_status = <<>>
        /\ proc.pc = run.last.pc
        /\ proc.ireg = run.last.ireg

C3_Witness ==
    /\ run.last.op = "illegal"
    /\ run.last.inst = ZExt64(Illegal32)
    /\ ~run.last.handled
    /\ run.phase = "unmap"
    /\ proc.ireg[riscv_ireg_a0] = W64(2)

HandledNonExit ==
    {W64(riscv_syscall_close), W64(riscv_syscall_write),
     W64(riscv_syscall_fstat), W64(riscv_syscall_brk)}

\* a step of StepIteration on an ecall whose a7 names close, write, fstat or brk
EcallIteration ==
    /\ run.phase = "step"
    /\ run.i < run.count
    /\ run'.last.op = "ecall"
    /\ ~run'.last.handled
    /\ run'.last.pc = proc.pc
    /\ proc.ireg[riscv_ireg_a7] \in HandledNonExit

\* C4: on an ecall whose a7 names close, write, fstat or brk the proxy is
\* invoked exactly once, afterwards PC is its value before the ecall plus the
\* fetched length, and the stepper goes on with the next instruction.
C4_EcallAdvancesPC ==
    [][EcallIteration =>
          /\ run'.proxy_calls = run.proxy_calls + 1
          /\ proc'.pc = Add(proc.pc, W64(run'.last.len))
          /\ run'.last.len = 4
          /\ run'.phase = "step"
          /\ run'.retired = run.retired + 1
          /\ run'.i < run'.count]_vars

C4_Witness ==
    /\ run.last.op = "ecall"
    /\ run.last.proxied
    /\ run.last.ireg[riscv_ireg_a7] = W64(riscv_syscall_write)
    /\ run.phase = "step"
    /\ run.proxy_calls = 2
    /\ proc.pc = Add(run.last.pc, W64(4))

\* C9: for a window that matches no length pattern inst_fetch reports 8 bytes
\* and the word 0, execute does not handle it, and step returns false without
\* advancing PC.
C9_NoLengthRejected ==
    (run.last.op # "none" /\ mem[ToNat(run.last.pc)] % 128 = 127) =>
        /\ run.last.len = 8
        /\ run.last.inst = W64(0)
        /\ ~run.last.handled
        /\ ~run.last.proxied
        /\ run.returned = "false"
        /\ run.phase \in {"unmap", "done"}
        /\ proc.pc = run.last.pc

C9_Witness ==
    /\ run.last.op = "illegal"
    /\ run.last.len = 8
    /\ mem[ToNat(run.last.pc)] = 127
    /\ run.retired = 2
    /\ run.phase = "unmap"
    /\ proc.pc = run.last.pc

(***************************************************************************)
(* brk on its own: the guest, once loaded, issues environment calls with   *)
(* a7 = brk and a0 drawn from addresses around the current break           *)
(***************************************************************************)
MaxBrk == 2        \* brk calls of one run

PT_NOTE == 4
PT_PHDR == 6

\* a load segment that ends on a page boundary
PagePhdr ==
    [p_type |-> PT_LOAD, p_flags |-> PF_R + PF_X,
     p_vaddr |-> TextBase, p_memsz |-> W64(page_size)]

\* a load segment the guest may read, write and execute
RwxPhdr ==
    [p_type |-> PT_LOAD, p_flags |-> PF_R + PF_W + PF_X,
     p_vaddr |-> TextBase, p_memsz |-> W64(TextSize)]

\* a data segment: loadable, readable and writable, one page above the text
DataPhdr ==
    [p_type |-> PT_LOAD, p_flags |-> PF_R + PF_W,
     p_vaddr |-> Add(TextBase, W64(page_size)), p_memsz |-> W64(100)]

\* headers that are not loadable: a note, and the program header table
NotePhdr ==
    [p_type |-> PT_NOTE, p_flags |-> PF_R,
     p_vaddr |-> Add(TextBase, W64(2 * page_size)), p_memsz |-> W64(32)]
PhdrPhdr ==
    [p_type |-> PT_PHDR, p_flags |-> PF_R + PF_X,
     p_vaddr |-> Add(TextBase, W64(2 * page_size)), p_memsz |-> W64(56)]

\* program-header lists of ELF files whose text lies at TextBase
BrkElfs ==
    {<<TextPhdr>>, <<PagePhdr>>, <<NotePhdr, TextPhdr, DataPhdr>>,
     <<PhdrPhdr, RwxPhdr>>}

\* the addresses a guest asks for: around the current break, the value the
\* previous call left in a0 plus 0x2000, an address one page into the stack
\* region, and the ends of the address space
BrkRequests(p) ==
    {W64(0), Sub(p.heap_end, W64(1)), p.heap_end, Add(p.heap_end, W64(1)),
     round_up(p.heap_end, page_size),
     Add(round_up(p.heap_end, page_size), W64(1)),
     Add(p.heap_end, W64(8192)), Add(p.ireg[riscv_ireg_a0], W64(8192)),
     Add(Sub(stack_top, stack_size), W64(page_size)),
     AllOnes(8)}

\* the guest text: MaxBrk environment calls, then the zero fill
BrkText == Flatten([n \in 1..MaxBrk |-> Ecall])

InitBrk ==
    /\ mem = TextImage(BrkText)
    /\ fetched = NoFetch
    /\ proc = [NewProc EXCEPT !.pc = TextBase]
    /\ inst_cache = [init |-> W64(0), ent |-> <<>>]
    /\ \E phdrs \in BrkElfs : run = NewRun(phdrs)
    /\ shadow = ShadowOff

\* the guest has loaded a7 = brk and a0 = new_addr and stands on an ecall; the
\* instructions that load the two registers are not followed one by one
BrkCall ==
    /\ run.phase = "step"
    /\ run.i < run.count
    /\ ~run.armed
    /\ Len(run.brk) < MaxBrk
    /\ inst_fetch(mem, proc.pc).inst = EcallWord
    /\ \E new_addr \in BrkRequests(proc) :
          proc' = [proc EXCEPT !.ireg[riscv_ireg_a0] = new_addr,
                               !.ireg[riscv_ireg_a7] = W64(riscv_syscall_brk)]
    /\ run' = [run EXCEPT !.armed = TRUE]
    /\ UNCHANGED <<mem, fetched, inst_cache, shadow>>

\* start(): the call proc.step(1024)
StepCallQuantum ==
    /\ run.phase = "loop"
    /\ run' = [run EXCEPT !.phase = "step", !.count = Quantum, !.i = 0,
                          !.retired = 0, !.returned = "none"]
    /\ UNCHANGED <<mem, fetched, proc, inst_cache, shadow>>

NextBrk ==
    \/ LoadSegment
    \/ MapStack
    \/ StepCallQuantum
    \/ BrkCall
    \/ StepIteration
    \/ Unmap
    \/ StartReturn

SpecBrk == InitBrk /\ [][NextBrk]_vars

\* the last brk call: its request, the heap before it, the host's answer
LastBrk == run.brk[Len(run.brk)]
MinusENOMEM == Sub(W64(0), W64(ENOMEM))
HeapUnchanged ==
    /\ proc.heap_end = LastBrk.heap_end
    /\ proc.heap_begin = LastBrk.heap_begin
    /\ proc.mapped_segments = LastBrk.segs
NeedsGrowth ==
    Lt(round_up(LastBrk.heap_end, page_size),
       round_up(LastBrk.new_addr, page_size))

\* C10: brk maps a new region iff round_up(new_addr) > round_up(heap_end);
\* otherwise it returns new_addr in a0 and leaves heap_end, heap_begin and the
\* segment list unchanged, also when new_addr is below heap_end.
C10_BrkMapsIffLarger ==
    run.brk # <<>> =>
        /\ ~NeedsGrowth =>
              /\ LastBrk.ret = LastBrk.new_addr
              /\ HeapUnchanged
        /\ (NeedsGrowth /\ LastBrk.mmap_ok) =>
              /\ Len(proc.mapped_segments) = Len(LastBrk.segs) + 1
              /\ LastBrk.ret = LastBrk.new_addr
        /\ (NeedsGrowth /\ ~LastBrk.mmap_ok) =>
              /\ LastBrk.ret = MinusENOMEM
              /\ HeapUnchanged

\* a request below an unaligned heap_end, in a heap that has grown before
C10_Witness ==
    /\ run.brk # <<>>
    /\ ~NeedsGrowth
    /\ Lt(LastBrk.new_addr, LastBrk.heap_end)
    /\ LastBrk.new_addr # W64(0)
    /\ Len(proc.mapped_segments) = 3
    /\ LastBrk.ret = LastBrk.new_addr

\* C11: when brk has to grow the heap and the mapping succeeds, one region is
\* appended to the segment list, it covers [round_up(old heap_end),
\* round_up(new_addr)), heap_end becomes round_up(new_addr) and a0 is new_addr.
C11_BrkAppendsRegion ==
    (run.brk # <<>> /\ NeedsGrowth /\ LastBrk.mmap_ok) =>
        LET from == round_up(LastBrk.heap_end, page_size)
            to == round_up(LastBrk.new_addr, page_size)
        IN  /\ proc.mapped_segments = Append(LastBrk.segs, <<from, Sub(to, from)>>)
            /\ proc.heap_end = to
            /\ proc.heap_begin = LastBrk.heap_begin
            /\ LastBrk.ret = LastBrk.new_addr

\* a second growth, from a break that the first growth left page aligned,
\* after a first one from an unaligned break
C11_Witness ==
    /\ Len(run.brk) = 2
    /\ NeedsGrowth /\ LastBrk.mmap_ok
    /\ run.brk[1].mmap_ok
    /\ run.brk[1].heap_end # round_up(run.brk[1].heap_end, page_size)
    /\ Len(proc.mapped_segments) = Len(run.brk[1].segs) + 2
    /\ proc.heap_end = round_up(LastBrk.new_addr, page_size)

\* the last iteration of the step loop was a brk call that had to grow the
\* heap and whose mmap failed
LastIterationFailedBrk ==
    /\ run.last.proxied
    /\ run.last.ireg[riscv_ireg_a7] = W64(riscv_syscall_brk)
    /\ NeedsGrowth
    /\ ~run.last.env.mmap_ok

\* C12: when the mapping inside brk fails, a0 is -ENOMEM, heap_end,
\* heap_begin and the segment list are unchanged, and the run continues: PC is
\* past the ecall and step has not returned.
C12_BrkFailureRecovered ==
    LastIterationFailedBrk =>
        /\ LastBrk.ret = MinusENOMEM
        /\ HeapUnchanged
        /\ proc.pc = Add(run.last.pc, W64(run.last.len))
        /\ run.phase = "step"
        /\ run.returned = "none"
        /\ run.exit_status = <<>>

C12_Witness ==
    /\ LastIterationFailedBrk
    /\ Len(run.brk) = 2
    /\ run.brk[1].mmap_ok
    /\ Len(run.brk[1].segs) + 1 = Len(proc.mapped_segments)
    /\ proc.ireg[riscv_ireg_a0] = MinusENOMEM
    /\ proc.pc = Add(TextBase, W64(8))

\* the guest can read and write address a
ReadWrite(a) ==
    {"PROT_READ", "PROT_WRITE"} \subseteq ProtAt(proc, run.phdrs, a)

\* the first and the last address of [cur, cur + k) and, when the range
\* reaches it, the first address of the page after the one cur lies in
GrownRange ==
    {LastBrk.heap_end, Sub(LastBrk.new_addr, W64(1))}
    \cup (IF Lt(round_up(LastBrk.heap_end, page_size), LastBrk.new_addr)
          THEN {round_up(LastBrk.heap_end, page_size)} ELSE {})

\* C13: for cur = heap_end and k > 0, after brk(cur + k) has returned cur + k
\* every address of [cur, cur + k) lies in a region mapped read-write.
C13_GrownRangeReadWrite ==
    (/\ run.brk # <<>>
     /\ Lt(LastBrk.heap_end, LastBrk.new_addr)
     /\ LastBrk.ret = LastBrk.new_addr)
        => \A a \in GrownRange : ReadWrite(a)

\* C14: scenario C. The value b that brk(0) leaves in a0 is the break after
\* loading, and after brk(b + 0x2000) the address b + 0x1fff lies in an owned
\* read-write region.
C14_ScenarioC ==
    (/\ Len(run.brk) >= 2
     /\ run.brk[1].new_addr = W64(0)
     /\ run.brk[2].new_addr = Add(run.brk[1].ret, W64(8192))
     /\ run.brk[2].mmap_ok)
        => /\ run.brk[1].ret = run.brk[1].heap_end
           /\ run.brk[2].ret = run.brk[2].new_addr
           /\ ReadWrite(Add(run.brk[1].ret, W64(8191)))

\* C15: when a proxied write or fstat fails with host error number e, the
\* proxy places -e in a0 and the run continues.
C15_ErrnoInA0 ==
    (/\ run.last.proxied
     /\ run.last.ireg[riscv_ireg_a7]
            \in {W64(riscv_syscall_write), W64(riscv_syscall_fstat)}
     /\ run.last.env.errno # 0)
        => /\ proc.ireg[riscv_ireg_a0] = Sub(W64(0), W64(run.last.env.errno))
           /\ run.phase = "step"
           /\ proc.pc = Add(run.last.pc, W64(run.last.len))

ProxiedCalls ==
    {W64(riscv_syscall_close), W64(riscv_syscall_write),
     W64(riscv_syscall_fstat), W64(riscv_syscall_exit),
     W64(riscv_syscall_brk)}

\* the processor is as it was before the last iteration fetched
ProcAsBeforeLast ==
    /\ proc.pc = run.last.pc
    /\ proc.ireg = run.last.ireg
    /\ proc.heap_begin = run.last.heap_begin
    /\ proc.heap_end = run.last.heap_end
    /\ proc.mapped_segments = run.last.segs

\* C16: the proxy dispatches on a7 to close, write, fstat, exit and brk; for
\* every other a7 the emulator halts fatally, no further guest instruction is
\* retired, and no register, heap cursor or segment-list entry is modified.
C16_UnknownSyscallHalts ==
    /\ [](run.last.proxied =>
             /\ (run.phase = "panic"
                    <=> run.last.ireg[riscv_ireg_a7] \notin ProxiedCalls)
             /\ run.phase = "panic" =>
                    /\ ProcAsBeforeLast
                    /\ run.returned = "none"
                    /\ run.exit_status = <<>>)
    /\ [][run.phase # "panic"]_vars

C16_Witness ==
    /\ run.phase = "panic"
    /\ run.last.proxied
    /\ run.last.ireg[riscv_ireg_a7] = W64(riscv_syscall_exit + 1)
    /\ run.retired = 2
    /\ proc.ireg[riscv_ireg_a0] = W64(1)

C18_ExitUnmapsAll ==
    run.phase = "exited" => run.unmapped = proc.mapped_segments

\* C19: no region is unmapped while the step loop runs; after the loop has
\* terminated every region of the segment list (load segments, stack, brk
\* regions) is unmapped exactly once, in the order in which it was appended.
C19_UnmapDeferredInOrder ==
    /\ run.phase \notin {"unmap", "done"} => run.unmapped = <<>>
    /\ run.phase = "unmap" =>
          /\ Len(run.unmapped) <= Len(proc.mapped_segments)
          /\ run.returned = "false"
          /\ \A n \in 1..Len(run.unmapped) :
                 run.unmapped[n] = proc.mapped_segments[n]
    /\ run.phase = "done" => run.unmapped = proc.mapped_segments

\* text, stack and two brk regions released after the guest ran into the
\* zero fill
C19_Witness ==
    /\ run.phase = "done"
    /\ Len(run.brk) = 2
    /\ Len(run.unmapped) = 4
    /\ run.unmapped[4] = proc.mapped_segments[4]
    /\ run.unmapped[3] # run.unmapped[4]

\* the loadable headers of the ELF file, in program-header order
Loadable ==
    SelectSeq(run.phdrs, LAMBDA h : h.p_type = PT_LOAD)

\* C20: start maps exactly the PT_LOAD program headers: each, whatever its
\* p_flags, yields one entry (p_vaddr, p_memsz) in program-header order, and
\* no header of another type is mapped.
C20_MapsLoadableHeaders ==
    run.phase \notin {"load", "setup_failed"} =>
        /\ Len(proc.mapped_segments) >= Len(Loadable) + 1
        /\ \A n \in 1..Len(Loadable) :
               proc.mapped_segments[n]
                   = <<Loadable[n].p_vaddr, Loadable[n].p_memsz>>
        /\ proc.mapped_segments[Len(Loadable) + 1]
               = <<Sub(stack_top, stack_size), stack_size>>

(***************************************************************************)
(* Set-up on its own: start() up to the first call of step, for ELF files  *)
(* whose program headers come in every order                               *)
(***************************************************************************)
MaxPhdrs == 3      \* program headers of one ELF file

\* load segments above and below the text
HighPhdr ==
    [p_type |-> PT_LOAD, p_flags |-> PF_R + PF_X,
     p_vaddr |-> Add(TextBase, W64(2 * page_size)),
     p_memsz |-> W64(page_size + 1)]
LowPhdr ==
    [p_type |-> PT_LOAD, p_flags |-> PF_R + PF_X,
     p_vaddr |-> W64(page_size), p_memsz |-> W64(16)]

\* a load segment whose end lies past the top of the address space
WrapPhdr ==
    [p_type |-> PT_LOAD, p_flags |-> PF_R + PF_X,
     p_vaddr |-> Sub(W64(0), W64(page_size)),
     p_memsz |-> W64(2 * page_size)]

LoadHeaders == {TextPhdr, HighPhdr, LowPhdr, DataPhdr, PhdrPhdr, WrapPhdr}

\* elf.ehdr.e_entry: the start of the text or an instruction further in
EntryPoints == {TextBase, Add(TextBase, W64(4))}

InitLoad ==
    /\ mem = TextImage(BrkText)
    /\ fetched = NoFetch
    /\ inst_cache = [init |-> W64(0), ent |-> <<>>]
    /\ shadow = ShadowOff
    /\ \E phdrs \in SeqsUpTo(LoadHeaders, MaxPhdrs), e \in EntryPoints :
          /\ run = [NewRun(phdrs) EXCEPT !.e_entry = e]
          /\ proc = [NewProc EXCEPT !.pc = e]

NextLoad ==
    \/ LoadSegment
    \/ MapStack

SpecLoad == InitLoad /\ [][NextLoad]_vars

SegEnd(seg) == Add(seg[1], seg[2])
MaxWord(a, b) == IF Lt(a, b) THEN b ELSE a

\* the regions of the load segments: the segment list without the stack
LoadRegions ==
    IF run.phase = "load" THEN proc.mapped_segments
    ELSE SubSeq(proc.mapped_segments, 1, Len(proc.mapped_segments) - 1)

\* a step in which map_load_segment has run to its end
LoadSegmentMapped ==
    /\ run.phase = "load"
    /\ run'.phase = "load"
    /\ Len(proc'.mapped_segments) = Len(proc.mapped_segments) + 1

\* C21: after each call of map_load_segment, heap_begin = heap_end =
\* max(previous heap_end, p_vaddr + p_memsz); hence when loading is complete,
\* whatever the order of the segments, heap_begin = heap_end = the largest
\* segment end among the mapped segments.
C21_HeapIsLargestSegmentEnd ==
    /\ []((run.phase = "loop" /\ LoadRegions # <<>>) =>
             /\ proc.heap_begin = proc.heap_end
             /\ \A n \in 1..Len(LoadRegions) :
                    /\ Le(LoadRegions[n][1], SegEnd(LoadRegions[n]))
                    /\ Le(SegEnd(LoadRegions[n]), proc.heap_end)
             /\ \E n \in 1..Len(LoadRegions) :
                    SegEnd(LoadRegions[n]) = proc.heap_end)
    /\ [][LoadSegmentMapped =>
             LET phdr == run.phdrs[run.k]
                 end == MaxWord(proc.heap_end,
                                Add(phdr.p_vaddr, phdr.p_memsz))
             IN  /\ proc'.heap_begin = end
                 /\ proc'.heap_end = end]_vars

\* three segments mapped with the highest one first
C21_Witness ==
    /\ run.phase = "loop"
    /\ run.phdrs = <<HighPhdr, TextPhdr, LowPhdr>>
    /\ Len(LoadRegions) = 3
    /\ proc.heap_end = Add(TextBase, W64(3 * page_size + 1))

\* C22: after stack setup and before the first instruction is fetched, the
\* segment list contains the region (0x77000000, 0x01000000), appended after
\* all load segments, sp equals 0x77fffff8, and PC equals the ELF entry point.
C22_StackAfterLoadSegments ==
    run.phase = "loop" =>
        LET n == Len(proc.mapped_segments)
            loaded == MappedPhdrs(run.phdrs)
        IN  /\ n = Len(loaded) + 1
            /\ proc.mapped_segments[n] = <<W64(1996488704), W64(16777216)>>
            /\ \A j \in 1..(n - 1) :
                   proc.mapped_segments[j]
                       = <<loaded[j].p_vaddr, loaded[j].p_memsz>>
            /\ proc.ireg[riscv_ireg_sp] = W64(2013265912)
            /\ proc.pc = run.e_entry
            /\ run.last = NoIteration

\* two load segments, then the stack; the entry point is not the text base
C22_Witness ==
    /\ run.phase = "loop"
    /\ run.phdrs = <<TextPhdr, DataPhdr, HighPhdr>>
    /\ Len(proc.mapped_segments) = 3
    /\ run.e_entry = Add(TextBase, W64(4))
    /\ proc.ireg[riscv_ireg_sp] = Sub(stack_top, W64(8))

(***************************************************************************)
(* The command line: the -i / --isa option and decode_isa_ext              *)
(***************************************************************************)
MaxTail == 1       \* characters that follow a prefix of IMAFDC

NUL == "\\0"

tolower(c) ==
    CASE c = "I" -> "i" [] c = "M" -> "m" [] c = "A" -> "a"
      [] c = "F" -> "f" [] c = "D" -> "d" [] c = "C" -> "c"
      [] c = "X" -> "x" [] OTHER -> c

\* the i-th character of the C string s, whose end is marked by NUL
CharAt(s, i) == IF i <= Len(s) THEN s[i] ELSE NUL

\* strncasecmp(s1, s2, n) from the i-th character on: 0 when the strings agree,
\* cases ignored, in their first n characters or up to their common end; the
\* callers only test the result against 0
RECURSIVE strncasecmp_from(_, _, _, _)
strncasecmp_from(s1, s2, n, i) ==
    IF i > n THEN 0
    ELSE IF tolower(CharAt(s1, i)) # tolower(CharAt(s2, i)) THEN 1
    ELSE IF CharAt(s1, i) = NUL THEN 0
    ELSE strncasecmp_from(s1, s2, n, i + 1)

strncasecmp(s1, s2, n) == strncasecmp_from(s1, s2, n, 1)

IMA == <<"I", "M", "A">>
IMAC == <<"I", "M", "A", "C">>
IMAFD == <<"I", "M", "A", "F", "D">>
IMAFDC == <<"I", "M", "A", "F", "D", "C">>

\* decode_isa_ext: each comparison looks at isa_ext.size() characters
decode_isa_ext(isa_ext) ==
    IF strncasecmp(isa_ext, IMA, Len(isa_ext)) = 0 THEN "rv_isa_ima"
    ELSE IF strncasecmp(isa_ext, IMAC, Len(isa_ext)) = 0 THEN "rv_isa_imac"
    ELSE IF strncasecmp(isa_ext, IMAFD, Len(isa_ext)) = 0 THEN "rv_isa_imafd"
    ELSE IF strncasecmp(isa_ext, IMAFDC, Len(isa_ext)) = 0
    THEN "rv_isa_imafdc"
    ELSE "rv_isa_none"

\* arguments of -i: a prefix of IMAFDC, up to MaxTail further characters, in
\* upper case, lower case, or alternating
Casings == {"upper", "lower", "mixed"}
Cased(s, how) ==
    [i \in 1..Len(s) |->
        IF how = "lower" \/ (how = "mixed" /\ i % 2 = 1)
        THEN tolower(s[i]) ELSE s[i]]
IsaArguments ==
    {Cased(SubSeq(IMAFDC, 1, k) \o t, how) :
        k \in 0..6, t \in SeqsUpTo({"C", "D", "X"}, MaxTail), how \in Casings}

InitIsa ==
    /\ mem = TextImage(<<>>)
    /\ \E s \in IsaArguments :
          fetched = [kind |-> "option", isa_ext |-> s, ext |-> "rv_isa_imafdc"]
    /\ proc = NewProc
    /\ inst_cache = [init |-> W64(0), ent |-> <<>>]
    /\ run = [NewRun(<<>>) EXCEPT !.phase = "cmdline"]
    /\ shadow = ShadowOff

\* parse_commandline: the handler of -i stores decode_isa_ext(s) in ext
ParseIsaOption ==
    /\ run.phase = "cmdline"
    /\ fetched' = [fetched EXCEPT !.ext = decode_isa_ext(fetched.isa_ext)]
    /\ run' = [run EXCEPT !.phase = "parsed"]
    /\ UNCHANGED <<mem, proc, inst_cache, shadow>>

NextIsa == ParseIsaOption

SpecIsa == InitIsa /\ [][NextIsa]_vars

\* the argument in upper case
Upper(s) ==
    [i \in 1..Len(s) |->
        CHOOSE c \in {"I", "M", "A", "F", "D", "C", "X"} :
            tolower(c) = tolower(s[i])]

\* C23: decode_isa_ext selects an ISA only for the four names IMA, IMAC, IMAFD,
\* IMAFDC (compared case-insensitively), each mapping to its own variant; every
\* other string, including the empty string and proper prefixes such as I, IM
\* or IMAF, yields rv_isa_none.
C23_OnlyFourNames ==
    run.phase = "parsed" =>
        fetched.ext = CASE Upper(fetched.isa_ext) = IMA -> "rv_isa_ima"
                        [] Upper(fetched.isa_ext) = IMAC -> "rv_isa_imac"
                        [] Upper(fetched.isa_ext) = IMAFD -> "rv_isa_imafd"
                        [] Upper(fetched.isa_ext) = IMAFDC -> "rv_isa_imafdc"
                        [] OTHER -> "rv_isa_none"

(***************************************************************************)
(* How a run ends                                                          *)
(***************************************************************************)

\* the loop of start() is over or the process is gone
RunEnded == run.phase \in {"unmap", "done", "exited", "panic"}

EndedByExit ==
    /\ run.phase = "exited"
    /\ run.last.proxied
    /\ run.last.ireg[riscv_ireg_a7] = W64(riscv_syscall_exit)

EndedByIllegal ==
    /\ run.phase \in {"unmap", "done"}
    /\ run.returned = "false"
    /\ run.last.op \notin {"none", "ecall"}
    /\ ~run.last.handled

EndedByUnknownSyscall ==
    /\ run.phase = "panic"
    /\ run.last.proxied
    /\ run.last.ireg[riscv_ireg_a7] \notin ProxiedCalls

CWord(v) == <<v % 256, v \div 256>>
CAddi(rd, imm6) ==
    CWord((imm6 \div 32) * 4096 + rd * 128 + (imm6 % 32) * 4 + 1)
CLi(rd, imm6) ==
    CWord(16384 + (imm6 \div 32) * 4096 + rd * 128 + (imm6 % 32) * 4 + 1)
CJalr(rs1) == CWord(9 * 4096 + rs1 * 128 + 2)
Jalr(rd, rs1, imm12) ==
    <<103 + (rd % 2) * 128, (rd \div 2) + (rs1 % 2) * 128,
      (rs1 \div 2) + (imm12 % 16) * 16, imm12 \div 16>>
CJal8 == CWord(8192 + 32 + 1)
JalRa8 == <<239, 0, 128, 0>>

\* the 12-bit immediate that equals the 6-bit immediate imm6
Imm12(imm6) == IF imm6 >= 32 THEN imm6 + 4032 ELSE imm6

ExpansionRegs == {riscv_ireg_a0, 1}
ExpansionImms == {1, 31, 32, 63}

\* a compressed instruction, the canonical instruction it stands for, and the
\* XLEN on which the compressed encoding has that meaning
Expansions ==
    {[c |-> CAddi(rd, i), canon |-> Addi(rd, rd, Imm12(i)), xlen |-> x] :
        rd \in ExpansionRegs, i \in ExpansionImms, x \in {32, 64}}
    \cup {[c |-> CLi(rd, i), canon |-> Addi(rd, 0, Imm12(i)), xlen |-> x] :
        rd \in ExpansionRegs, i \in ExpansionImms, x \in {32, 64}}
    \cup {[c |-> CJalr(rs1), canon |-> Jalr(1, rs1, 0), xlen |-> x] :
        rs1 \in ExpansionRegs, x \in {32, 64}}
    \cup {[c |-> CJal8, canon |-> JalRa8, xlen |-> 32]}

\* a0 when the instruction is fetched; ra holds an odd address
StartA0 == {W64(0), AllOnes(8), Add(TextBase, W64(9))}
StartRa == Add(TextBase, W64(33))

InitDecomp ==
    /\ \E e \in Expansions, form \in {"c", "canon"}, v \in StartA0 :
          /\ mem = TextImage(IF form = "c" THEN e.c ELSE e.canon)
          /\ fetched = [kind |-> "none", xlen |-> e.xlen, form |-> form,
                        canon |-> e.canon]
          /\ proc = [NewProc EXCEPT !.pc = TextBase,
                                    !.ireg[riscv_ireg_a0] = v,
                                    !.ireg[1] = StartRa]
    /\ inst_cache = [init |-> W64(0), ent |-> <<>>]
    /\ run = [NewRun(<<TextPhdr>>) EXCEPT !.phase = "decode"]
    /\ shadow = ShadowOff

\* P::decode_inst, first statement: riscv_decode_inst<T, RV_32 | RV_64, ...>
DecodeFetched ==
    /\ run.phase = "decode"
    /\ fetched.kind = "none"
    /\ LET f == inst_fetch(mem, proc.pc)
       IN  fetched' = [kind |-> "decoded", xlen |-> fetched.xlen,
                       form |-> fetched.form, canon |-> fetched.canon,
                       len |-> f.len,
                       dec |-> IF fetched.xlen = 32
                               THEN riscv_decode_inst_rv32(f.inst)
                               ELSE riscv_decode_inst(f.inst)]
    /\ UNCHANGED <<mem, proc, inst_cache, run, shadow>>

\* P::decode_inst, second statement: riscv_decompress_inst_rv32 / _rv64
Decompress ==
    /\ run.phase = "decode"
    /\ fetched.kind = "decoded"
    /\ fetched' = [kind |-> "decompressed", xlen |-> fetched.xlen,
                   form |-> fetched.form, canon |-> fetched.canon,
                   len |-> fetched.len, before |-> fetched.dec,
                   dec |-> IF fetched.xlen = 32
                           THEN decompress_inst_rv32(fetched.dec)
                           ELSE decompress_inst_rv64(fetched.dec)]
    /\ UNCHANGED <<mem, proc, inst_cache, run, shadow>>

\* P::exec_inst(dec, inst_length) on rv64; next to it the processor that
\* executes the canonical instruction from the same state
Execute ==
    /\ run.phase = "decode"
    /\ fetched.kind = "decompressed"
    /\ fetched.xlen = 64
    /\ proc' = exec_inst(fetched.dec, proc, fetched.len).proc
    /\ fetched' = [kind |-> "executed", xlen |-> fetched.xlen,
                   form |-> fetched.form, canon |-> fetched.canon,
                   len |-> fetched.len, before |-> fetched.before,
                   dec |-> fetched.dec, start |-> proc,
                   canon_post |->
                       exec_inst(decode_inst(ZExt64(fetched.canon)),
                                 proc, 4).proc]
    /\ UNCHANGED <<mem, inst_cache, run, shadow>>

NextDecomp ==
    \/ DecodeFetched
    \/ Decompress
    \/ Execute

SpecDecomp == InitDecomp /\ [][NextDecomp]_vars

\* the decompression target of the record that was decompressed
DecompTarget ==
    IF fetched.xlen = 32 THEN riscv_inst_decomp_rv32(fetched.before.op)
    ELSE riscv_inst_decomp_rv64(fetched.before.op)

\* C25: decompress_inst_rv32 and decompress_inst_rv64 change only the op and
\* codec fields of a decoded record: imm and the raw instruction word (with
\* its register fields) are never modified; when the decompression table maps
\* the record's op to illegal the whole record is unchanged, otherwise op
\* becomes the table's target and codec becomes that target's codec.
C25_DecompressFrame ==
    fetched.kind = "decompressed" =>
        /\ fetched.dec.imm = fetched.before.imm
        /\ fetched.dec.inst = fetched.before.inst
        /\ fetched.dec.rd = fetched.before.rd
        /\ fetched.dec.rs1 = fetched.before.rs1
        /\ fetched.dec.rs2 = fetched.before.rs2
        /\ IF DecompTarget = "illegal"
           THEN fetched.dec = fetched.before
           ELSE /\ fetched.dec.op = DecompTarget
                /\ fetched.dec.codec = riscv_inst_codec(DecompTarget)

\* c.jal 8 on RV32 has become jal with the immediate it was decoded with
C25_Witness ==
    /\ fetched.kind = "decompressed"
    /\ fetched.xlen = 32
    /\ fetched.before.op = "c_jal"
    /\ fetched.before.codec = "cj_jal"
    /\ fetched.dec.op = "jal"
    /\ fetched.dec.codec = "uj"
    /\ fetched.dec.imm = 8

\* the compressed instruction has been executed, and next to it its canonical
\* form from the same start state
ExecutedCompressed ==
    /\ fetched.kind = "executed"
    /\ fetched.form = "c"

\* the two post-states agree in everything but the integer registers and PC
SameBesidesRegsAndPC ==
    /\ proc.heap_begin = fetched.canon_post.heap_begin
    /\ proc.heap_end = fetched.canon_post.heap_end
    /\ proc.mapped_segments = fetched.canon_post.mapped_segments

\* PC: two bytes instead of four past the instruction, or the same jump target
PCByLength ==
    IF fetched.dec.op \in {"jal", "jalr"}
    THEN proc.pc = fetched.canon_post.pc
    ELSE /\ proc.pc = Add(fetched.start.pc, W64(2))
         /\ fetched.canon_post.pc = Add(fetched.start.pc, W64(4))

\* C26: for every compressed opcode c whose decompression target is the
\* canonical opcode C, and every start state, executing the record decoded and
\* decompressed from c yields the same post-state as executing C with the same
\* operands, except that PC advances by 2 instead of 4.
C26_DecompressionEquivalence ==
    ExecutedCompressed =>
        /\ fetched.dec.op = decode_inst(ZExt64(fetched.canon)).op
        /\ SameBesidesRegsAndPC
        /\ PCByLength
        /\ proc.ireg = fetched.canon_post.ireg

\* C26 with the link register set apart: a compressed jump that links writes
\* PC + 2 where the canonical jump writes PC + 4; every other register agrees.
C26_EquivalentUpToLength ==
    ExecutedCompressed =>
        LET links == fetched.dec.op \in {"jal", "jalr"} /\ fetched.dec.rd # 0
        IN  /\ fetched.dec.op = decode_inst(ZExt64(fetched.canon)).op
            /\ SameBesidesRegsAndPC
            /\ PCByLength
            /\ \A r \in 0..31 :
                   (links /\ r = fetched.dec.rd)
                       \/ proc.ireg[r] = fetched.canon_post.ireg[r]
            /\ links =>
                   /\ proc.ireg[fetched.dec.rd] = Add(fetched.start.pc, W64(2))
                   /\ fetched.canon_post.ireg[fetched.dec.rd]
                          = Add(fetched.start.pc, W64(4))

\* c.addi a0, -1 executed on a0 = 0: a0 is all ones, as after addi a0, a0, -1
C26_Witness ==
    /\ ExecutedCompressed
    /\ fetched.before.op = "c_addi"
    /\ fetched.dec.imm = -1
    /\ fetched.start.ireg[riscv_ireg_a0] = W64(0)
    /\ proc.ireg[riscv_ireg_a0] = AllOnes(8)
    /\ fetched.canon_post.ireg[riscv_ireg_a0] = AllOnes(8)

(***************************************************************************)
(* fstat on its own: the ABI structure unknown_stat<P> in guest memory,    *)
(* for processors of XLEN 32 and 64                                        *)
(***************************************************************************)

\* sizes in bytes of the processor's integer types: P::ulong_t and P::long_t
\* are XLEN bits wide, P::uint_t and P::int_t 32 bits
long_t_size(xlen) == xlen \div 8
int_t_size == 4

\* unknown_stat<P>: the members in declaration order with their sizes. Every
\* member is naturally aligned, so the structure has no padding
unknown_stat(xlen) ==
    LET L == long_t_size(xlen)
        I == int_t_size
    IN  << <<"dev", L>>, <<"ino", L>>, <<"mode", I>>, <<"nlink", I>>,
           <<"uid", I>>, <<"gid", I>>, <<"rdev", L>>, <<"__pad1", L>>,
           <<"size", L>>, <<"blksize", I>>, <<"__pad2", I>>, <<"blocks", L>>,
           <<"atime", L>>, <<"atime_nsec", L>>, <<"mtime", L>>,
           <<"mtime_nsec", L>>, <<"ctime", L>>, <<"ctime_nsec", L>>,
           <<"__unused4", I>>, <<"__unused5", I>> >>

\* cvt_unknown_stat: the members it assigns; an assignment to a narrower
\* member keeps the low bytes of the host value
cvt_unknown_stat(host_stat, xlen) ==
    LET L == long_t_size(xlen)
        I == int_t_size
    IN  [dev |-> Trunc(host_stat.st_dev, L),
         ino |-> Trunc(host_stat.st_ino, L),
         mode |-> Trunc(host_stat.st_mode, I),
         nlink |-> Trunc(host_stat.st_nlink, I),
         uid |-> Trunc(host_stat.st_uid, I),
         gid |-> Trunc(host_stat.st_gid, I),
         rdev |-> Trunc(host_stat.st_rdev, L),
         size |-> Trunc(host_stat.st_size, L),
         blocks |-> Trunc(host_stat.st_blocks, L),
         blksize |-> Trunc(host_stat.st_blksize, I),
         atime |-> Trunc(host_stat.st_atim.tv_sec, L),
         atime_nsec |-> Trunc(host_stat.st_atim.tv_nsec, L),
         mtime |-> Trunc(host_stat.st_mtim.tv_sec, L),
         mtime_nsec |-> Trunc(host_stat.st_mtim.tv_nsec, L),
         ctime |-> Trunc(host_stat.st_ctim.tv_sec, L),
         ctime_nsec |-> Trunc(host_stat.st_ctim.tv_nsec, L)]

\* guest memory after cvt_unknown_stat has written through the pointer addr:
\* the members follow one another from addr on, and the bytes of a member that
\* is not assigned stay as they are
StoreStat(m, addr, abi_stat, xlen) ==
    LET base == ToNat(addr)
        members == unknown_stat(xlen)
        image == Flatten([n \in 1..Len(members) |->
                     IF members[n][1] \in DOMAIN abi_stat
                     THEN abi_stat[members[n][1]]
                     ELSE [i \in 1..members[n][2] |-> -1]])
    IN  [a \in DOMAIN m |->
            IF a < base \/ a - base >= Len(image) \/ image[a - base + 1] = -1
            THEN m[a]
            ELSE image[a - base + 1]]

\* the guest buffer a1 points to, and the byte it is filled with
StatBuf == W64(131072)
StatFill == 170
StatBufBytes == 128

\* host values: small ones, and ones that need more than 31 and 32 bits
TwoTo31 == <<0, 0, 0, 128, 0, 0, 0, 0>>
TwoTo32Plus5 == <<5, 0, 0, 0, 1, 0, 0, 0>>
HostSizes == {W64(0), W64(5), W64(2147483647), TwoTo31, TwoTo32Plus5}
HostModes == {W64(33188), W64(16877)}       \* 0100644, 040755
HostTimes == {W64(0), W64(1762300800), TwoTo31, TwoTo32Plus5}
HostInodes == {W64(2), TwoTo32Plus5}

\* struct stat as the host's fstat fills it in
HostStats ==
    {[st_dev |-> W64(2049), st_ino |-> ino, st_mode |-> mode,
      st_nlink |-> W64(1), st_uid |-> W64(1000), st_gid |-> W64(100),
      st_rdev |-> W64(0), st_size |-> size, st_blocks |-> W64(8),
      st_blksize |-> W64(4096),
      st_atim |-> [tv_sec |-> W64(1762300800), tv_nsec |-> W64(1)],
      st_mtim |-> [tv_sec |-> mtime, tv_nsec |-> W64(999999999)],
      st_ctim |-> [tv_sec |-> W64(1762300800), tv_nsec |-> W64(3)]] :
        ino \in HostInodes, mode \in HostModes, size \in HostSizes,
        mtime \in HostTimes}

\* host_stat after memset, when fstat has failed
ZeroStat ==
    [st_dev |-> W64(0), st_ino |-> W64(0), st_mode |-> W64(0),
     st_nlink |-> W64(0), st_uid |-> W64(0), st_gid |-> W64(0),
     st_rdev |-> W64(0), st_size |-> W64(0), st_blocks |-> W64(0),
     st_blksize |-> W64(0),
     st_atim |-> [tv_sec |-> W64(0), tv_nsec |-> W64(0)],
     st_mtim |-> [tv_sec |-> W64(0), tv_nsec |-> W64(0)],
     st_ctim |-> [tv_sec |-> W64(0), tv_nsec |-> W64(0)]]

\* what the host's fstat may answer: 0 and a filled structure, or -1
FstatAnswers ==
    {[env |-> QuietEnv, host_stat |-> s] : s \in HostStats}
    \cup {[env |-> [ret |-> AllOnes(8), errno |-> e, mmap_ok |-> TRUE],
           host_stat |-> ZeroStat] : e \in {EBADF, EFAULT}}

\* the guest stands on an ecall with a7 = fstat, a0 = a descriptor and
\* a1 = StatBuf
InitStat ==
    /\ mem = [a \in ToNat(StatBuf)..(ToNat(StatBuf) + StatBufBytes - 1) |->
                 StatFill]
    /\ \E x \in {32, 64}, fd \in {0, 3} :
          /\ fetched = [kind |-> "none", xlen |-> x]
          /\ proc = [NewProc EXCEPT !.pc = TextBase,
                                    !.ireg[riscv_ireg_a0] = W64(fd),
                                    !.ireg[riscv_ireg_a1] = StatBuf,
                                    !.ireg[riscv_ireg_a7] =
                                        W64(riscv_syscall_fstat)]
    /\ inst_cache = [init |-> W64(0), ent |-> <<>>]
    /\ run = [NewRun(<<TextPhdr>>) EXCEPT !.phase = "abi"]
    /\ shadow = ShadowOff

\* proxy_syscall -> sys_fstat, with the store through the guest pointer
SysFstat ==
    /\ run.phase = "abi"
    /\ fetched.kind = "none"
    /\ \E ans \in FstatAnswers :
          LET r == proxy_syscall(proc, ans.env)
          IN  /\ proc' = r.proc
              /\ mem' = IF r.fstat_at # <<>>
                        THEN StoreStat(mem, r.fstat_at[1],
                                       cvt_unknown_stat(ans.host_stat,
                                                        fetched.xlen),
                                       fetched.xlen)
                        ELSE mem
              /\ fetched' = [kind |-> "fstat", xlen |-> fetched.xlen,
                             env |-> ans.env, host_stat |-> ans.host_stat,
                             mem |-> mem, proc |-> proc]
    /\ UNCHANGED <<inst_cache, run, shadow>>

NextStat == SysFstat

SpecStat == InitStat /\ [][NextStat]_vars

\* the member of L bytes at offset off of the buffer, and the same read as a
\* signed member, both widened to 64 bits
MemberAt(off, L) == ReadLE(mem, Add(StatBuf, W64(off)), L)
SignedMemberAt(off, L) ==
    LET w == MemberAt(off, L)
    IN  [i \in 1..8 |-> IF i <= L THEN w[i]
                        ELSE IF w[L] >= 128 THEN 255 ELSE 0]

FstatSucceeded == fetched.kind = "fstat" /\ fetched.env.ret = W64(0)

\* C27: for both XLEN=32 and XLEN=64 and every host stat result, after a
\* successful fstat the ABI structure at the guest address in a1 holds the
\* host's size, mode and mtime values (and the other copied fields) in the
\* documented fields, equal to the host values.
C27_StatConversion ==
    FstatSucceeded =>
        LET h == fetched.host_stat IN
        IF fetched.xlen = 64
        THEN /\ MemberAt(8, 8) = h.st_ino
             /\ MemberAt(16, 4) = h.st_mode
             /\ SignedMemberAt(48, 8) = h.st_size
             /\ SignedMemberAt(88, 8) = h.st_mtim.tv_sec
             /\ MemberAt(96, 8) = h.st_mtim.tv_nsec
        ELSE /\ MemberAt(4, 4) = h.st_ino
             /\ MemberAt(8, 4) = h.st_mode
             /\ SignedMemberAt(32, 4) = h.st_size
             /\ SignedMemberAt(56, 4) = h.st_mtim.tv_sec
             /\ MemberAt(60, 4) = h.st_mtim.tv_nsec

\* C30: fstat writes the ABI stat structure to guest memory at a1 only when
\* the host fstat succeeds (a0 = 0); when the host fstat fails, guest memory at
\* a1 is left unchanged and only a0 is modified.
C30_FstatStoresOnSuccessOnly ==
    fetched.kind = "fstat" =>
        /\ proc = [fetched.proc EXCEPT
                     !.ireg[riscv_ireg_a0] = fetched.env.ret]
        /\ IF fetched.env.ret = W64(0)
           THEN /\ proc.ireg[riscv_ireg_a0] = W64(0)
                /\ mem # fetched.mem
                /\ MemberAt(IF fetched.xlen = 64 THEN 16 ELSE 8, 4)
                       = fetched.host_stat.st_mode
                /\ MemberAt(IF fetched.xlen = 64 THEN 20 ELSE 12, 4)
                       = fetched.host_stat.st_nlink
           ELSE mem = fetched.mem

\* the host answered -1 with EBADF: the buffer still holds its fill bytes
C30_Witness ==
    /\ fetched.kind = "fstat"
    /\ fetched.env.errno = EBADF
    /\ fetched.proc.ireg[riscv_ireg_a0] = W64(3)
    /\ proc.ireg[riscv_ireg_a0] = AllOnes(8)
    /\ \A a \in DOMAIN mem : mem[a] = StatFill

(***************************************************************************)
(* lr.w / sc.w: guest programs of load-reserved, store-conditional and     *)
(* store instructions on two words of guest data                           *)
(***************************************************************************)
MaxAmo == 3        \* instructions of one program

\* a 32-bit instruction of the R layout (the S layout with imm = 0 has the
\* same fields), least significant byte first
RType(opcode, rd, funct3, rs1, rs2, funct7) ==
    <<opcode + (rd % 2) * 128,
      (rd \div 2) + funct3 * 16 + (rs1 % 2) * 128,
      (rs1 \div 2) + (rs2 % 16) * 16,
      (rs2 \div 16) + funct7 * 2>>

riscv_ireg_a3 == 13
riscv_ireg_a4 == 14

\* lr.w a0, (rs1) / sc.w a4, a3, (rs1) / sw a3, 0(rs1)
LrW(rs1) == RType(47, riscv_ireg_a0, 2, rs1, 0, 8)
ScW(rs1) == RType(47, riscv_ireg_a4, 2, rs1, riscv_ireg_a3, 12)
Sw(rs1) == RType(35, 0, 2, rs1, riscv_ireg_a3, 0)

\* a1 and a2 point to the two data words
DataA == W64(131072)
DataB == W64(131080)

AmoInsts ==
    {LrW(riscv_ireg_a1), LrW(riscv_ireg_a2), ScW(riscv_ireg_a1),
     ScW(riscv_ireg_a2), Sw(riscv_ireg_a2), LiA0}

\* the text of a program, the zero fill behind it, and the two data words
AmoImage(code) ==
    [a \in (ToNat(TextBase)..(ToNat(TextBase) + 4 * MaxAmo + 7))
            \cup (ToNat(DataA)..(ToNat(DataA) + 3))
            \cup (ToNat(DataB)..(ToNat(DataB) + 3)) |->
        IF a >= ToNat(DataA) THEN 17
        ELSE IF a - ToNat(TextBase) < Len(code)
        THEN code[a - ToNat(TextBase) + 1] ELSE 0]

\* fetched keeps what the run has seen: the address of the latest lr.w, whether
\* a store or a successful sc.w came after it, and the last instruction
NoAmoYet ==
    [kind |-> "amo", lr_addr |-> <<>>, disturbed |-> FALSE,
     last |-> [op |-> "none"]]

InitAmo ==
    /\ \E code \in SeqsUpTo(AmoInsts, MaxAmo) : mem = AmoImage(Flatten(code))
    /\ fetched = NoAmoYet
    /\ proc = [NewProc EXCEPT !.pc = TextBase,
                              !.ireg[riscv_ireg_a1] = DataA,
                              !.ireg[riscv_ireg_a2] = DataB,
                              !.ireg[riscv_ireg_a3] = W64(7),
                              !.ireg[riscv_ireg_a4] = W64(9)]
    /\ inst_cache = [init |-> W64(0), ent |-> <<>>]
    /\ run = [NewRun(<<TextPhdr>>) EXCEPT !.phase = "step", !.count = Quantum]
    /\ shadow = ShadowOff

\* one iteration of step() on an instruction the executor handles; the decode
\* cache is left aside
AmoIteration ==
    /\ run.phase = "step"
    /\ LET f == inst_fetch(mem, proc.pc)
           dec == decode_inst(f.inst)
           ex == rv64_exec_mem(dec, proc, mem, f.len)
           addr == proc.ireg[dec.rs1]
           stored == ex.mem # mem \/ dec.op = "sw"
           success == dec.op = "sc_w" /\ ex.proc.ireg[dec.rd] = W64(0)
       IN  /\ ex.handled
           /\ proc' = ex.proc
           /\ mem' = ex.mem
           /\ fetched' =
                 [kind |-> "amo",
                  lr_addr |-> IF dec.op = "lr_w" THEN <<addr>>
                              ELSE fetched.lr_addr,
                  disturbed |-> IF dec.op = "lr_w" THEN FALSE
                                ELSE fetched.disturbed
                                     \/ dec.op = "sw" \/ success,
                  last |-> [op |-> dec.op, addr |-> addr, rd |-> dec.rd,
                            value |-> proc.ireg[dec.rs2],
                            lr_addr |-> fetched.lr_addr,
                            disturbed |-> fetched.disturbed,
                            mem |-> mem]]
           /\ run' = [run EXCEPT !.retired = @ + 1]
    /\ UNCHANGED <<inst_cache, shadow>>

\* step() returns false on the zero fill behind the program
AmoHalt ==
    /\ run.phase = "step"
    /\ LET f == inst_fetch(mem, proc.pc)
       IN  ~rv64_exec_mem(decode_inst(f.inst), proc, mem, f.len).handled
    /\ run' = [run EXCEPT !.phase = "unmap", !.returned = "false",
                          !.count = 0]
    /\ UNCHANGED <<mem, fetched, proc, inst_cache, shadow>>

NextAmo ==
    \/ AmoIteration
    \/ AmoHalt

SpecAmo == InitAmo /\ [][NextAmo]_vars

\* the last instruction was an sc.w to the address of the latest lr.w
ScAfterLr ==
    /\ fetched.last.op = "sc_w"
    /\ fetched.last.lr_addr = <<fetched.last.addr>>

ScSucceeded ==
    /\ proc.ireg[fetched.last.rd] = W64(0)
    /\ ReadLE(mem, fetched.last.addr, 4)
           = ZExt64(Trunc(fetched.last.value, 4))

ScFailed ==
    /\ proc.ireg[fetched.last.rd] # W64(0)
    /\ mem = fetched.last.mem

MaxFetch == 4      \* instructions of a program whose fetches are followed

\* two words that share a key (1427) and one with another key
CacheWords == {LiA0, LiA1, CAddiA0}

\* the text of a program and the zero fill behind it
CacheImage(code) ==
    [a \in ToNat(TextBase)..(ToNat(TextBase) + 4 * MaxFetch + 7) |->
        IF a - ToNat(TextBase) < Len(code)
        THEN code[a - ToNat(TextBase) + 1] ELSE 0]

\* fetched keeps the fetches of the run in order: the word, its key, whether
\* the lookup hit, and the cache after the iteration
NoFetchYet == [kind |-> "cache", log |-> <<>>]

InitCache ==
    /\ \E code \in SeqsUpTo(CacheWords, MaxFetch) :
          mem = CacheImage(Flatten(code))
    /\ fetched = NoFetchYet
    /\ proc = [NewProc EXCEPT !.pc = TextBase]
    /\ \E g \in CacheGarbage : inst_cache = [init |-> g, ent |-> <<>>]
    /\ run = [NewRun(<<>>) EXCEPT !.phase = "step", !.count = Quantum]
    /\ shadow = ShadowOff

\* one iteration of the while loop of step()
CacheIteration ==
    /\ run.phase = "step"
    /\ run.i < run.count
    /\ LET r == step_iteration(mem, proc, inst_cache, inst_cache_size,
                               QuietEnv)
       IN  /\ proc' = r.proc
           /\ inst_cache' = r.cache
           /\ run' = AfterIteration(r)
           /\ fetched' = [fetched EXCEPT !.log =
                             Append(@, [inst |-> r.it.inst, key |-> r.it.key,
                                        hit |-> r.it.hit, cache |-> r.cache])]
    /\ UNCHANGED <<mem, shadow>>

NextCache ==
    \/ CacheIteration
    \/ StartReturn

SpecCache == InitCache /\ [][NextCache]_vars

\* fetch j of the run missed
Missed(j) == ~fetched.log[j].hit

\* fetch k is of another word with the key of fetch j
Collides(k, j) ==
    /\ fetched.log[k].key = fetched.log[j].key
    /\ fetched.log[k].inst # fetched.log[j].inst

\* fetch i is the latest miss on the word of fetch j before j
LatestMissOn(i, j) ==
    /\ i < j
    /\ Missed(i)
    /\ fetched.log[i].inst = fetched.log[j].inst
    /\ \A h \in (i + 1)..(j - 1) :
          ~(Missed(h) /\ fetched.log[h].inst = fetched.log[j].inst)

\* fetch j is the first fetch after i of a word colliding with the word of i
FirstCollisionAfter(i, j) ==
    /\ i < j
    /\ Collides(j, i)
    /\ \A h \in (i + 1)..(j - 1) : ~Collides(h, i)

\* after fetch j the slot of its key holds its word and the record decoded
\* from it
SlotHoldsFetch(j) ==
    /\ fetched.log[j].key = ToNat(fetched.log[j].inst) % inst_cache_size
    /\ CacheSlot(fetched.log[j].cache, fetched.log[j].key)
          = [inst |-> fetched.log[j].inst,
             dec |-> decode_inst(fetched.log[j].inst)]

C31_HitsReuseDecodedRecords ==
    \A j \in 1..Len(fetched.log) :
        fetched.log[j].hit =>
            \E i \in 1..(j - 1) :
                /\ Missed(i)
                /\ fetched.log[i].inst = fetched.log[j].inst

\* 256^n modulo m, and the value of a word modulo m as the sum of its bytes
\* weighted by the powers of 256
RECURSIVE PowMod256(_, _)
PowMod256(n, m) == IF n = 0 THEN 1 % m ELSE (PowMod256(n - 1, m) * 256) % m

RECURSIVE WeightedSum(_, _, _)
WeightedSum(w, n, m) ==
    IF n = 0 THEN 0
    ELSE (WeightedSum(w, n - 1, m) + w[n] * PowMod256(n - 1, m)) % m

FilledSlots == DOMAIN inst_cache.ent

\* C32: for every fetched instruction word the cache index inst mod 8191 lies
\* in 0..8190, and every slot k that has been filled stores a word w with
\* w mod 8191 = k.
C32_SlotIndexIsWordModSize ==
    /\ run.last.op # "none" =>
          /\ run.last.key \in 0..(inst_cache_size - 1)
          /\ run.last.key = WeightedSum(run.last.inst, 8, inst_cache_size)
    /\ \A k \in FilledSlots :
          /\ k \in 0..(inst_cache_size - 1)
          /\ WeightedSum(inst_cache.ent[k].inst, 8, inst_cache_size) = k

\* two slots are filled, one of them by a 48-bit word
C32_Witness ==
    /\ Cardinality(FilledSlots) >= 2
    /\ \E k \in FilledSlots :
          inst_cache.ent[k].inst[5] # 0 \/ inst_cache.ent[k].inst[6] # 0

\* loading is over: start has mapped the stack
Loaded == run.phase \notin {"load", "setup_failed"}

PageMultiple(w) == And(w, W64(page_size - 1)) = W64(0)

\* the number of regions brk has appended: the segment list was complete when
\* the first brk call was made
BrkGrowths ==
    IF run.brk = <<>> THEN 0
    ELSE Len(proc.mapped_segments) - Len(run.brk[1].segs)

\* C33: over any sequence of brk calls (successful, no-growth or failing)
\* heap_end never decreases, heap_begin never changes after loading,
\* heap_begin <= heap_end holds in every state, and after the first successful
\* growth heap_end is a multiple of the page size.
C33_HeapCursorsMonotone ==
    /\ [](Le(proc.heap_begin, proc.heap_end))
    /\ [](BrkGrowths > 0 => PageMultiple(proc.heap_end))
    /\ [][/\ Le(proc.heap_end, proc'.heap_end)
          /\ Loaded => proc'.heap_begin = proc.heap_begin]_vars

\* two brk calls have grown the heap of a program whose break after loading
\* was not page-aligned
C33_Witness ==
    /\ BrkGrowths = 2
    /\ ~PageMultiple(proc.heap_begin)
    /\ Lt(run.brk[2].heap_end, proc.heap_end)
    /\ Lt(run.brk[1].heap_end, run.brk[2].heap_end)

\* the regions brk has appended, in append order, and the end of region i
BrkRegionList ==
    IF run.brk = <<>> THEN <<>>
    ELSE SubSeq(proc.mapped_segments, Len(run.brk[1].segs) + 1,
                Len(proc.mapped_segments))

BrkRegionEnd(i) == Add(BrkRegionList[i][1], BrkRegionList[i][2])

\* C34: after any sequence of brk calls, the regions appended by brk are
\* page-aligned, pairwise non-overlapping and contiguous in append order: each
\* begins where the previous one ends, the first begins at
\* round_up(heap_begin, page), and together they cover exactly
\* [round_up(heap_begin, page), heap_end).
C34_BrkRegionsContiguous ==
    LET n == Len(BrkRegionList) IN
    /\ \A i \in 1..n :
          /\ PageMultiple(BrkRegionList[i][1])
          /\ PageMultiple(BrkRegionList[i][2])
          /\ Lt(BrkRegionList[i][1], BrkRegionEnd(i))
          /\ i > 1 => BrkRegionList[i][1] = BrkRegionEnd(i - 1)
          /\ \A j \in (i + 1)..n : Le(BrkRegionEnd(i), BrkRegionList[j][1])
    /\ n > 0 =>
          /\ BrkRegionList[1][1] = round_up(proc.heap_begin, page_size)
          /\ BrkRegionEnd(n) = proc.heap_end
    /\ n = 0 => Le(proc.heap_end, round_up(proc.heap_begin, page_size))

\* brk has appended two regions, the second of two pages, above a break that
\* was not page-aligned after loading
C34_Witness ==
    /\ Len(BrkRegionList) = 2
    /\ ~PageMultiple(proc.heap_begin)
    /\ BrkRegionList[2][2] = W64(2 * page_size)
    /\ run.phase = "step"

\* regions i and j of the segment list share an address
RegionsOverlap(i, j) ==
    LET a == proc.mapped_segments[i]
        b == proc.mapped_segments[j]
    IN  /\ Lt(a[1], Add(b[1], b[2]))
        /\ Lt(b[1], Add(a[1], a[2]))

\* C35: in every reachable state the regions of the segment list are pairwise
\* disjoint; in particular no region created by brk overlaps the stack region
\* [stack_top - stack_size, stack_top) or a load segment, for any sequence of
\* brk requests.
C35_RegionsDisjoint ==
    \A i \in 1..Len(proc.mapped_segments) :
        \A j \in (i + 1)..Len(proc.mapped_segments) : ~RegionsOverlap(i, j)

\* C36: inst_fetch(addr) reads only bytes of the instruction it returns: for
\* every window it never reads a guest byte at or beyond addr + length, so
\* fetching an instruction that ends exactly at the end of an owned region
\* touches no byte outside that region.
C36_FetchReadsOnlyItsInstruction ==
    fetched.kind = "fetch" => fetched.f.read <= fetched.f.len

(***************************************************************************)
(* proxy_syscall on its own: a guest that makes up to MaxCalls calls        *)
(***************************************************************************)
MaxCalls == 2      \* environment calls of one run

GuardBytes == 8

\* the stat buffer with GuardBytes guest bytes before and after it
AbiImage ==
    [a \in (ToNat(StatBuf) - GuardBytes)
           ..(ToNat(StatBuf) + StatBufBytes + GuardBytes - 1) |-> StatFill]

\* what the host may answer: success, a count of 5, -1, and a failing mmap;
\* fstat fills host_stat only when it returns 0
AbiAnswers ==
    {[env |-> e,
      host_stat |-> IF e.ret = W64(0)
                    THEN [ZeroStat EXCEPT !.st_mode = W64(33188),
                                          !.st_size = W64(5),
                                          !.st_ino = W64(2)]
                    ELSE ZeroStat] :
        e \in {QuietEnv, MmapFails,
               [ret |-> W64(5), errno |-> 0, mmap_ok |-> TRUE],
               [ret |-> AllOnes(8), errno |-> EBADF, mmap_ok |-> TRUE]}}

\* a0 of a call: a descriptor, or an address above the break
AbiArguments(p) == {W64(0), W64(3), Add(p.heap_end, W64(8192))}

NoCallYet == [kind |-> "none", calls |-> 0]

\* the text segment and the stack are mapped and step is running
InitAbi ==
    /\ mem = AbiImage
    /\ fetched = NoCallYet
    /\ proc = [map_stack(map_load_segment(NewProc, TextPhdr))
                 EXCEPT !.pc = TextBase,
                        !.ireg[riscv_ireg_a1] = StatBuf,
                        !.ireg[riscv_ireg_a2] = W64(5)]
    /\ inst_cache = [init |-> W64(0), ent |-> <<>>]
    /\ run = [NewRun(<<TextPhdr>>) EXCEPT !.phase = "abi", !.k = 2]
    /\ shadow = ShadowOff

\* the guest loads a7 and a0 for its next ecall
GuestLoadsArguments ==
    /\ run.phase = "abi"
    /\ ~run.armed
    /\ fetched.calls < MaxCalls
    /\ \E n \in SyscallNumbers, a0 \in AbiArguments(proc) :
          proc' = [proc EXCEPT !.ireg[riscv_ireg_a7] = W64(n),
                               !.ireg[riscv_ireg_a0] = a0]
    /\ run' = [run EXCEPT !.armed = TRUE]
    /\ UNCHANGED <<mem, fetched, inst_cache, shadow>>

\* proxy_syscall(proc), with the store of sys_fstat through the guest pointer;
\* fetched keeps the processor and the memory the call started from
ProxyCall ==
    /\ run.phase = "abi"
    /\ run.armed
    /\ \E ans \in AbiAnswers :
          LET r == proxy_syscall(proc, ans.env)
          IN  /\ proc' = r.proc
              /\ mem' = IF r.fstat_at # <<>>
                        THEN StoreStat(mem, r.fstat_at[1],
                                       cvt_unknown_stat(ans.host_stat, 64), 64)
                        ELSE mem
              /\ run' = [run EXCEPT
                           !.armed = FALSE,
                           !.phase = CASE r.outcome = "ok" -> "abi"
                                       [] r.outcome = "exit" -> "exited"
                                       [] OTHER -> "panic"]
              /\ fetched' = [kind |-> "abi", calls |-> fetched.calls + 1,
                             env |-> ans.env, proc |-> proc, mem |-> mem]
    /\ UNCHANGED <<inst_cache, shadow>>

NextAbi ==
    \/ GuestLoadsArguments
    \/ ProxyCall

SpecAbi == InitAbi /\ [][NextAbi]_vars

\* proxy_syscall has returned and the guest has not moved on
CallReturned == fetched.kind = "abi" /\ ~run.armed

\* the number the last call was made with, and the bytes it changed
LastCallNumber == fetched.proc.ireg[riscv_ireg_a7]

BytesChanged == {a \in DOMAIN mem : mem[a] # fetched.mem[a]}

\* the guest addresses of the stat structure at a1
StatStructure ==
    LET a1 == ToNat(fetched.proc.ireg[riscv_ireg_a1])
    IN  a1..(a1 + StatBufBytes - 1)

\* C37: a handled non-exit syscall changes no integer register other than a0
\* and does not change PC; close and write change nothing else in the emulator
\* state, fstat additionally writes only the stat structure at a1, and brk
\* additionally changes only heap_end and the segment list.
C37_SyscallFrame ==
    (CallReturned /\ LastCallNumber \in HandledNonExit) =>
        /\ run.phase = "abi"
        /\ \A r \in 0..31 :
              r # riscv_ireg_a0 => proc.ireg[r] = fetched.proc.ireg[r]
        /\ proc.pc = fetched.proc.pc
        /\ proc.lr = fetched.proc.lr
        /\ proc.heap_begin = fetched.proc.heap_begin
        /\ LastCallNumber # W64(riscv_syscall_brk) =>
              /\ proc.heap_end = fetched.proc.heap_end
              /\ proc.mapped_segments = fetched.proc.mapped_segments
        /\ LastCallNumber # W64(riscv_syscall_fstat) => BytesChanged = {}
        /\ BytesChanged \subseteq StatStructure

\* an fstat that stored the structure, followed by a brk that grew the heap
C37_Witness ==
    /\ CallReturned
    /\ fetched.calls = 2
    /\ LastCallNumber = W64(riscv_syscall_brk)
    /\ Lt(fetched.proc.heap_end, proc.heap_end)
    /\ Len(proc.mapped_segments) = Len(fetched.proc.mapped_segments) + 1
    /\ mem = fetched.mem
    /\ mem # AbiImage

====
